---- MODULE Spec2Model ----
(***************************************************************************)
(* Eye-tracking recorder: the client recorder (EyeTracker.tsx), the        *)
(* ingestion route (routes/points.ts), the session routes                  *)
(* (routes/sessions.ts) and the aligned processor (signal/processor.ts).   *)
(*                                                                         *)
(* Numbers.  Positions and confidences are fixed-point integers: the       *)
(* value 1.0 is ONE.  ONE is a multiple of 10 (the thresholds 0.1) and of  *)
(* 60 * 60, so that the mean of a window of 1..5 values is an exact        *)
(* integer for two averaging stages in a row (worker, then server) when    *)
(* the detector's values are multiples of ONE / 10.                        *)
(* An optional confidence is a sequence: << >> when absent, << c >> when   *)
(* present.                                                                *)
(***************************************************************************)
EXTENDS Integers, Sequences, FiniteSets, TLC

ONE == 600 * 60

(***************************************************************************)
(* Bounds of the model.                                                    *)
(***************************************************************************)
MaxSamples == 2
MaxLive == 3
MaxIdleFrames == 1
MaxBatch == 3
MaxAttempts == 2
MaxSessions == 1
MaxQuietTicks == 2
MaxTs == 2
MaxGrid == 4
MaxBad == 1

(***************************************************************************)
(* Generic helpers.                                                        *)
(***************************************************************************)
Abs(v) == IF v < 0 THEN 0 - v ELSE v

Min2(a, b) == IF a < b THEN a ELSE b

Max2(a, b) == IF a > b THEN a ELSE b

RECURSIVE SumX(_)
SumX(s) == IF s = << >> THEN 0 ELSE Head(s).x + SumX(Tail(s))

RECURSIVE SumSeq(_)
SumSeq(s) == IF s = << >> THEN 0 ELSE Head(s) + SumSeq(Tail(s))

\* Array.prototype.slice(start, end) with 0-based half-open indices
Slice(s, start, end) == SubSeq(s, start + 1, end)

(***************************************************************************)
(* routes/points.ts : class SignalProcessor                                *)
(***************************************************************************)
MOVING_AVERAGE_WINDOW == 5

OUTLIER_THRESHOLD == ONE \div 10

MIN_CONFIDENCE == ONE \div 10

\* (point.confidence || 1.0): absent and 0 are both falsy
ConfOrOne(c) == IF c = << >> \/ c = << 0 >> THEN ONE ELSE c[1]

\* static applyMovingAverageFilter(points, windowSize)
ApplyMovingAverageFilter(points, windowSize) ==
  [ i \in 1..Len(points) |->
      LET start == Max2(0, (i - 1) - (windowSize \div 2))
          end   == Min2(Len(points), (i - 1) + (windowSize \div 2) + 1)
          window == Slice(points, start, end)
      IN [ ts |-> points[i].ts,
           x |-> SumX(window) \div Len(window),
           confidence |-> points[i].confidence ] ]

\* a faulty removal, to test C34: a point equal to a neighbour is dropped
RemoveOutliersStrict(points, threshold) ==
  IF Len(points) < 3 THEN points
  ELSE LET keep(i) == /\ Abs(points[i].x - points[i - 1].x) < threshold
                      /\ Abs(points[i].x - points[i + 1].x) < threshold
                      /\ points[i].x > points[i - 1].x
           RECURSIVE Mid(_)
           Mid(i) == IF i > Len(points) - 1 THEN << >>
                     ELSE (IF keep(i) THEN << points[i] >> ELSE << >>) \o Mid(i + 1)
       IN << points[1] >> \o Mid(2) \o << points[Len(points)] >>

\* static removeOutliers(points, threshold)
RemoveOutliers(points, threshold) ==
  IF Len(points) < 3 THEN points
  ELSE LET keep(i) == /\ Abs(points[i].x - points[i - 1].x) < threshold
                      /\ Abs(points[i].x - points[i + 1].x) < threshold
           RECURSIVE Mid(_)
           Mid(i) == IF i > Len(points) - 1 THEN << >>
                     ELSE (IF keep(i) THEN << points[i] >> ELSE << >>) \o Mid(i + 1)
       IN << points[1] >> \o Mid(2) \o << points[Len(points)] >>

\* static filterByConfidence(points, minConfidence)
FilterByConfidence(points, minConfidence) ==
  LET Keep(p) == ConfOrOne(p.confidence) >= minConfidence
  IN SelectSeq(points, Keep)

\* static normalizeX(x)
NormalizeX(x) == Max2(0 - ONE, Min2(ONE, x))

\* static processPoints(points)
ProcessPoints(points) ==
  IF Len(points) = 0 THEN << >>
  ELSE LET byConf   == FilterByConfidence(points, MIN_CONFIDENCE)
           cleaned  == RemoveOutliers(byConf, OUTLIER_THRESHOLD)
           averaged == ApplyMovingAverageFilter(cleaned, MOVING_AVERAGE_WINDOW)
       IN [ i \in 1..Len(averaged) |->
              [ averaged[i] EXCEPT !.x = NormalizeX(averaged[i].x) ] ]

(***************************************************************************)
(* signal/processor.ts                                                     *)
(***************************************************************************)
MOVING_AVG == 5

\* a faulty average, to test C33: the window is padded with zeros at the edges
movingAveragePadded(xs, k) ==
  LET half == k \div 2
  IN [ i \in 1..Len(xs) |->
         LET s == Max2(0, (i - 1) - half)
             e == Min2(Len(xs), (i - 1) + half + 1)
             win == Slice(xs, s, e)
         IN SumSeq(win) \div k ]

\* function movingAverage(xs, k)
movingAverage(xs, k) ==
  LET half == k \div 2
  IN [ i \in 1..Len(xs) |->
         LET s == Max2(0, (i - 1) - half)
             e == Min2(Len(xs), (i - 1) + half + 1)
             win == Slice(xs, s, e)
         IN SumSeq(win) \div Len(win) ]

\* [...points].sort((a,b) => a.ts - b.ts): a stable sort by ts
RECURSIVE InsertByTs(_, _)
InsertByTs(sorted, p) ==
  IF sorted = << >> THEN << p >>
  ELSE IF Head(sorted).ts <= p.ts
       THEN << Head(sorted) >> \o InsertByTs(Tail(sorted), p)
       ELSE << p >> \o sorted

RECURSIVE SortByTs(_)
SortByTs(points) ==
  IF points = << >> THEN << >>
  ELSE InsertByTs(SortByTs(SubSeq(points, 1, Len(points) - 1)), points[Len(points)])

\* (p.confidence ?? 1): only an absent confidence defaults
ConfNullishOne(c) == IF c = << >> THEN ONE ELSE c[1]

\* export function processAligned(points)
processAligned(points) ==
  IF Len(points) = 0 THEN << >>
  ELSE LET srt == SortByTs(points)
           sorted == [ i \in 1..Len(srt) |->
                         [ srt[i] EXCEPT !.x = Max2(0 - ONE, Min2(ONE, srt[i].x)) ] ]
           smoothed == movingAverage([ i \in 1..Len(sorted) |-> sorted[i].x ], MOVING_AVG)
       IN [ i \in 1..Len(sorted) |->
              LET p == sorted[i]
                  isLowConfidence == ConfNullishOne(p.confidence) < ONE \div 10
              IN [ ts |-> p.ts,
                   raw |-> p.x,
                   filtered |-> IF isLowConfidence
                                THEN (IF i > 1 THEN smoothed[i - 1] ELSE smoothed[i])
                                ELSE smoothed[i],
                   confidence |-> p.confidence,
                   isOutlier |-> isLowConfidence,
                   quality |-> ConfNullishOne(p.confidence) ] ]

(***************************************************************************)
(* components/EyeTracker.tsx : calibration mapping                         *)
(* A calibration reference is << >> (null) or << x >>.  The mapping        *)
(* returns a fraction num / den (den > 0) so that no rounding is modelled; *)
(* nan is TRUE when the JavaScript result is NaN (0 / 0).  A division of a *)
(* non-zero number by zero is +-Infinity, which clamp turns into +-1.      *)
(***************************************************************************)
Frac(n, d) == [ nan |-> FALSE, num |-> n, den |-> d ]

NaN == [ nan |-> TRUE, num |-> 0, den |-> 1 ]

\* function clamp(v, lo, hi) on a fraction, lo = -1 and hi = 1
clampUnit(f) ==
  IF f.nan THEN f
  ELSE IF f.num > f.den THEN Frac(1, 1)
  ELSE IF f.num < 0 - f.den THEN Frac(0 - 1, 1)
  ELSE f

\* a faulty mapping, to test C10: the offset -1 of the left half is dropped
DivPlusNoOffset(position, range, offset) ==
  IF range # 0
    THEN (IF range > 0 THEN Frac(position, range)
                       ELSE Frac(0 - position, 0 - range))
    ELSE IF position = 0 THEN NaN
    ELSE IF position > 0 THEN Frac(2, 1)
    ELSE Frac(0 - 2, 1)

\* position / range, then the offset (-1 or 0) added to it
DivPlus(position, range, offset) ==
  IF range # 0
    THEN (IF range > 0 THEN Frac(position + offset * range, range)
                       ELSE Frac(0 - (position + offset * range), 0 - range))
    ELSE IF position = 0 THEN NaN
    ELSE IF position > 0 THEN Frac(2, 1)
    ELSE Frac(0 - 2, 1)

\* const getCalibratedEyePosition = (rawX) => ...
getCalibratedEyePosition(rawX, calData) ==
  IF calData.left = << >> \/ calData.center = << >> \/ calData.right = << >>
    THEN clampUnit(Frac(rawX, ONE))
    ELSE LET left == calData.left[1]
             center == calData.center[1]
             right == calData.right[1]
         IN IF rawX <= center
              THEN clampUnit(DivPlus(rawX - left, center - left, 0 - 1))
              ELSE clampUnit(DivPlus(rawX - center, right - center, 0))

(***************************************************************************)
(* State.                                                                  *)
(*                                                                         *)
(* React state of EyeTracker (useState), the worker channel, the HTTP      *)
(* requests in flight, the handlers suspended at an await, the server's    *)
(* tables, and history variables (named h...) that record what happened.   *)
(* A state update and the render and effects it causes are one step: the   *)
(* closures of the effects hold the current state.  The closure of an      *)
(* async handler keeps the state of the render in which it was called.     *)
(* Time advances in steps of TickMs; Date.now() readings used as point     *)
(* timestamps are strictly increasing and modelled by the counter nextTs.  *)
(***************************************************************************)
VARIABLES
  isRecording,        \* useState(false)
  isPaused,           \* useState(false)
  currentSessionId,   \* useState(sessionId || null); 0 is null
  liveData,           \* useState<Point[]>([])
  uploadQueue,        \* useState<Point[]>([])
  uploadStats,        \* useState({totalUploaded, totalFailed, ...})
  sinceReal,          \* Date.now() - lastRealDataTime, capped
  nextTs,             \* next Date.now() reading used as a timestamp
  workerChan,         \* 'processed' messages posted by the worker, not yet handled
  uploadElapsed,      \* ms since the upload interval was (re)created
  inflight,           \* appendPoints requests awaited by the client
  startPc,            \* startRecording: "idle" or "awaitCreate"
  stopCtx,            \* stopRecording suspended at its await
  cleanup,            \* cleanupEmptySession suspended at its await
  sessions,           \* server: ids of the rows of table Session
  nextSession,        \* server: next session id
  store,              \* server: rows of table Sample, in insertion order
  attempts,           \* number of appendPoints calls made so far
  hSubmitted,         \* timestamps posted to the worker for upload, in order
  hPlaceholders,      \* timestamps of the synthesized placeholder points
  hAcked,             \* timestamps of batches whose append returned success
  hDelivered,         \* timestamps of the batches the server accepted, in order
  hQueueAge,          \* ms the upload interval has run, through the restarts by arrivals, up to its attempt
  hStopped,           \* stopRecording completed and no start since
  hLateAttempts,      \* periodic appends started while hStopped
  hLatePlaceholders,  \* placeholders injected while hStopped
  hFinal,             \* the last stopRecording: its session, and whether its final append failed
  fIn,                \* a request body being put together for the server
  fOut,               \* << >> or << what the server did with the body fIn >>
  calibrationData,    \* useState({left: null, center: null, right: null})
  calOut,             \* << >> or << [raw, out] >>: last mapping computed with calibrationData
  pbPoints,           \* SessionPlayback: useState<Point[]>([]), the timestamps of `points'
  isPlaying,          \* SessionPlayback: useState(false)
  currentTime,        \* SessionPlayback: useState(0), in 1/TimeScale ms
  playbackSpeed,      \* SessionPlayback: useState(1), in quarters
  duration,           \* SessionPlayback: useState(0), in ms
  isCalibrating,      \* useState(false)
  calibrationStep,    \* useState(null): << >> or << position >>
  calibrationCountdown, \* useState(0)
  calibrationSamples, \* useState({left: [], center: [], right: []}), the x of each sample
  averageEye,         \* debugInfo.averageEye: << >> (null) or << x >>
  calRun,             \* the calibration whose intervals run, with the values its closures captured
  zoomDomain,         \* SessionPlayback: useState(null): << >> or << [left, right] >>
  isZooming,          \* SessionPlayback: useState(false)
  zoomStart,          \* SessionPlayback: useState(null): << >> or << ts >>
  zoomEnd             \* SessionPlayback: useState(null): << >> or << ts >>

vars == << isRecording, isPaused, currentSessionId, liveData, uploadQueue,
           uploadStats, sinceReal, nextTs, workerChan, uploadElapsed,
           inflight, startPc, stopCtx, cleanup, sessions, nextSession, store,
           attempts, hSubmitted, hPlaceholders, hAcked, hDelivered, hQueueAge,
           hStopped, hLateAttempts, hLatePlaceholders, hFinal,
           fIn, fOut, calibrationData, calOut,
           pbPoints, isPlaying, currentTime, playbackSpeed, duration,
           isCalibrating, calibrationStep, calibrationCountdown,
           calibrationSamples, averageEye, calRun,
           zoomDomain, isZooming, zoomStart, zoomEnd >>

clientVars == << isRecording, isPaused, currentSessionId, liveData, uploadQueue,
                 uploadStats, sinceReal, nextTs, workerChan, uploadElapsed,
                 inflight, startPc, stopCtx, cleanup, attempts >>

clientVarsButCleanup ==
  << isRecording, isPaused, currentSessionId, liveData, uploadQueue,
     uploadStats, sinceReal, nextTs, workerChan, uploadElapsed,
     inflight, startPc, stopCtx, attempts >>

serverVars == << sessions, nextSession, store >>

histVars == << hSubmitted, hPlaceholders, hAcked, hDelivered, hQueueAge,
               hStopped, hLateAttempts, hLatePlaceholders, hFinal >>

playbackVars == << pbPoints, isPlaying, currentTime, playbackSpeed, duration >>

calibVars == << isCalibrating, calibrationStep, calibrationCountdown,
                calibrationSamples, averageEye, calRun >>

zoomVars == << zoomDomain, isZooming, zoomStart, zoomEnd >>

pureVars == << fIn, fOut, calibrationData, calOut, playbackVars, calibVars,
               zoomVars >>

(***************************************************************************)
(* Program constants of the recorder, in ms.                               *)
(***************************************************************************)
UPLOAD_INTERVAL_MS == 200

PLACEHOLDER_INTERVAL_MS == 100

RECENT_MS == 1000

STALL_MS == 2000

\* the step of model time
TickMs == PLACEHOLDER_INTERVAL_MS

\* confidence: 0.8 of every detected point
DETECTED_CONFIDENCE == (8 * ONE) \div 10

\* x: 0.5, confidence: 0.5 of a placeholder point
PLACEHOLDER_X == ONE \div 2

NullCalibration == [ left |-> << >>, center |-> << >>, right |-> << >> ]

NoStop == [ pc |-> "idle", sid |-> 0, points |-> << >>, totalUploaded |-> 0 ]

NoCleanup == [ state |-> "none", sid |-> 0 ]

NoFinal == [ failed |-> FALSE, sid |-> 0 ]

\* no calibration has been started
NoCalRun == [ pc |-> "idle", position |-> "left", averageEye |-> << >>,
              samples |-> << >>, samplesCollected |-> 0, attempt |-> 0 ]

\* raw eye positions the detector reports
EyeXVals == { ONE \div 2 }

TsOf(points) == [ i \in 1..Len(points) |-> points[i].ts ]

TsSet(points) == { points[i].ts : i \in 1..Len(points) }

RemoveAt(s, i) == SubSeq(s, 1, i - 1) \o SubSeq(s, i + 1, Len(s))

\* the recorder after its first render, with nothing in flight
InitClient ==
  /\ isRecording = FALSE
  /\ isPaused = FALSE
  /\ currentSessionId = 0
  /\ liveData = << >>
  /\ uploadQueue = << >>
  /\ uploadStats = [ totalUploaded |-> 0, totalFailed |-> 0 ]
  /\ sinceReal = STALL_MS + TickMs
  /\ nextTs = 1
  /\ workerChan = << >>
  /\ uploadElapsed = 0
  /\ inflight = << >>
  /\ startPc = "idle"
  /\ stopCtx = NoStop
  /\ cleanup = NoCleanup
  /\ attempts = 0
  /\ calibrationData = NullCalibration
  /\ isCalibrating = FALSE
  /\ calibrationStep = << >>
  /\ calibrationCountdown = 0
  /\ calibrationSamples = [ left |-> << >>, center |-> << >>, right |-> << >> ]
  /\ averageEye = << >>
  /\ calRun = NoCalRun

\* nothing has happened yet
InitHistory ==
  /\ hSubmitted = << >>
  /\ hPlaceholders = {}
  /\ hAcked = {}
  /\ hDelivered = << >>
  /\ hQueueAge = 0
  /\ hStopped = FALSE
  /\ hLateAttempts = 0
  /\ hLatePlaceholders = 0
  /\ hFinal = NoFinal
  /\ fIn = << >>
  /\ fOut = << >>
  /\ calOut = << >>

\* SessionPlayback after its first render, before the session is loaded
InitPlayback ==
  /\ pbPoints = << >>
  /\ isPlaying = FALSE
  /\ currentTime = 0
  /\ playbackSpeed = 4
  /\ duration = 0
  /\ zoomDomain = << >>
  /\ isZooming = FALSE
  /\ zoomStart = << >>
  /\ zoomEnd = << >>

Init ==
  /\ InitClient
  /\ InitHistory
  /\ InitPlayback
  /\ sessions = {}
  /\ nextSession = 1
  /\ store = << >>

(***************************************************************************)
(* Effects of EyeTracker.  Each is re-run (its interval cleared and, when   *)
(* its guard passes, created again) by the render that follows a change of *)
(* one of its dependencies.  A setter called with a new array always       *)
(* changes the state.                                                      *)
(***************************************************************************)
\* useEffect(..., [currentSessionId, uploadQueue, isRecording, isPaused]):
\* the guard of the upload interval
UploadActive == currentSessionId # 0 /\ Len(uploadQueue) # 0

\* the upload effect after a step; queueSet: setUploadQueue was called;
\* arrival: it was called by the worker's onmessage
UploadEffect(queueSet, arrival) ==
  /\ uploadElapsed' =
       IF ~(currentSessionId' # 0 /\ Len(uploadQueue') # 0) THEN 0
       ELSE IF \/ queueSet
               \/ currentSessionId' # currentSessionId
               \/ isRecording' # isRecording
               \/ isPaused' # isPaused
            THEN 0
            ELSE uploadElapsed
  /\ hQueueAge' =
       IF ~(currentSessionId' # 0 /\ Len(uploadQueue') # 0) THEN hQueueAge
       ELSE IF ~(currentSessionId # 0 /\ Len(uploadQueue) # 0) THEN 0
       ELSE IF \/ queueSet /\ ~arrival
               \/ currentSessionId' # currentSessionId
               \/ isRecording' # isRecording
               \/ isPaused' # isPaused
            THEN 0
            ELSE hQueueAge

\* useEffect(..., [isRecording, isPaused, lastRealDataTime]): the guard of
\* the placeholder interval
PlaceholderActive == isRecording /\ ~isPaused

\* worker: removeOutliers then applyMovingAverageFilter on the posted points
WorkerProcess(points) ==
  ApplyMovingAverageFilter(RemoveOutliers(points, OUTLIER_THRESHOLD),
                           MOVING_AVERAGE_WINDOW)

(***************************************************************************)
(* Recording controls.                                                     *)
(***************************************************************************)
\* startRecording, up to its await (or to its end when a session exists)
StartRecording ==
  /\ ~isRecording
  /\ startPc = "idle"
  /\ IF currentSessionId # 0
       THEN /\ isRecording' = TRUE
            /\ isPaused' = FALSE
            /\ startPc' = startPc
       ELSE /\ startPc' = "awaitCreate"
            /\ UNCHANGED << isRecording, isPaused >>
  /\ hStopped' = FALSE
  /\ UNCHANGED << currentSessionId, liveData, uploadQueue, uploadStats, sinceReal,
                  nextTs, workerChan, inflight, stopCtx, cleanup, attempts >>
  /\ UploadEffect(FALSE, FALSE)
  /\ UNCHANGED << serverVars, pureVars, hSubmitted, hPlaceholders, hAcked,
                  hDelivered, hLateAttempts, hLatePlaceholders, hFinal >>

\* POST /sessions answered 201: createSession stores the id, startRecording goes on
CreateSessionResolved ==
  /\ startPc = "awaitCreate"
  /\ nextSession <= MaxSessions
  /\ sessions' = sessions \cup { nextSession }
  /\ nextSession' = nextSession + 1
  /\ currentSessionId' = nextSession
  /\ isRecording' = TRUE
  /\ isPaused' = FALSE
  /\ startPc' = "idle"
  /\ UNCHANGED << liveData, uploadQueue, uploadStats, sinceReal, nextTs,
                  workerChan, inflight, stopCtx, cleanup, attempts, store >>
  /\ UploadEffect(FALSE, FALSE)
  /\ UNCHANGED << pureVars, hSubmitted, hPlaceholders, hAcked, hDelivered,
                  hStopped, hLateAttempts, hLatePlaceholders, hFinal >>

\* POST /sessions failed: createSession logs the error, startRecording goes on
CreateSessionRejected ==
  /\ startPc = "awaitCreate"
  /\ isRecording' = TRUE
  /\ isPaused' = FALSE
  /\ startPc' = "idle"
  /\ UNCHANGED << currentSessionId, liveData, uploadQueue, uploadStats, sinceReal,
                  nextTs, workerChan, inflight, stopCtx, cleanup, attempts >>
  /\ UploadEffect(FALSE, FALSE)
  /\ UNCHANGED << serverVars, pureVars, hSubmitted, hPlaceholders, hAcked,
                  hDelivered, hStopped, hLateAttempts, hLatePlaceholders, hFinal >>

\* pauseRecording
PauseRecording ==
  /\ isRecording /\ ~isPaused
  /\ isPaused' = TRUE
  /\ UNCHANGED << isRecording, currentSessionId, liveData, uploadQueue, uploadStats,
                  sinceReal, nextTs, workerChan, inflight, startPc, stopCtx,
                  cleanup, attempts >>
  /\ UploadEffect(FALSE, FALSE)
  /\ UNCHANGED << serverVars, pureVars, hSubmitted, hPlaceholders, hAcked,
                  hDelivered, hStopped, hLateAttempts, hLatePlaceholders, hFinal >>

\* resumeRecording
ResumeRecording ==
  /\ isRecording /\ isPaused
  /\ isPaused' = FALSE
  /\ UNCHANGED << isRecording, currentSessionId, liveData, uploadQueue, uploadStats,
                  sinceReal, nextTs, workerChan, inflight, startPc, stopCtx,
                  cleanup, attempts >>
  /\ UploadEffect(FALSE, FALSE)
  /\ UNCHANGED << serverVars, pureVars, hSubmitted, hPlaceholders, hAcked,
                  hDelivered, hStopped, hLateAttempts, hLatePlaceholders, hFinal >>

(***************************************************************************)
(* Detector, worker and timers.                                            *)
(***************************************************************************)
\* onResults with both eyes found.  Its closure is the one of the first
\* render (useCallback with no dependencies), so the mapping it calls sees
\* the initial calibrationData; isRecordingRef and isPausedRef are current.
OnResults(eyeX) ==
  /\ nextTs <= MaxLive
  /\ UNCHANGED << isRecording, isPaused, currentSessionId, uploadQueue, uploadStats,
                  inflight, startPc, stopCtx, cleanup, attempts >>
  /\ LET point == [ ts |-> nextTs,
                    x |-> getCalibratedEyePosition(eyeX, NullCalibration).num,
                    confidence |-> << DETECTED_CONFIDENCE >> ]
     IN /\ liveData' = Append(liveData, point)
        /\ nextTs' = nextTs + 1
        /\ IF isRecording /\ ~isPaused
             THEN /\ Len(hSubmitted) < MaxSamples
                  /\ workerChan' = Append(workerChan, WorkerProcess(<< point >>))
                  /\ sinceReal' = 0
                  /\ hSubmitted' = Append(hSubmitted, point.ts)
             ELSE /\ Len(liveData) - Len(hSubmitted) - Cardinality(hPlaceholders)
                       < MaxIdleFrames
                  /\ UNCHANGED << workerChan, sinceReal, hSubmitted >>
  /\ UploadEffect(FALSE, FALSE)
  /\ UNCHANGED << serverVars, pureVars, hPlaceholders, hAcked, hDelivered,
                  hStopped, hLateAttempts, hLatePlaceholders, hFinal >>

\* workerRef.current.onmessage, type 'processed'
WorkerOnMessage ==
  /\ Len(workerChan) > 0
  /\ uploadQueue' = uploadQueue \o Head(workerChan)
  /\ workerChan' = Tail(workerChan)
  /\ UNCHANGED << isRecording, isPaused, currentSessionId, liveData, uploadStats,
                  sinceReal, nextTs, inflight, startPc, stopCtx, cleanup, attempts >>
  /\ UploadEffect(TRUE, TRUE)
  /\ UNCHANGED << serverVars, pureVars, hSubmitted, hPlaceholders, hAcked,
                  hDelivered, hStopped, hLateAttempts, hLatePlaceholders, hFinal >>

\* a faulty placeholder callback, to test C7: it also posts the placeholder
\* to the worker, as onResults does with a detected point
PlaceholderIntervalPosting(elapsed) ==
  LET hasRecentRealData == elapsed < RECENT_MS
      placeholder == [ ts |-> nextTs, x |-> PLACEHOLDER_X,
                       confidence |-> << ONE \div 2 >> ]
  IN IF PlaceholderActive /\ ~hasRecentRealData /\ elapsed > STALL_MS
       THEN /\ nextTs <= MaxLive
            /\ liveData' = Append(liveData, placeholder)
            /\ nextTs' = nextTs + 1
            /\ hPlaceholders' = hPlaceholders \cup { nextTs }
            /\ hLatePlaceholders' = hLatePlaceholders + (IF hStopped THEN 1 ELSE 0)
            /\ workerChan' = Append(workerChan, WorkerProcess(<< placeholder >>))
       ELSE UNCHANGED << liveData, nextTs, hPlaceholders, hLatePlaceholders,
                         workerChan >>

\* the callback of the placeholder interval; its period is one tick, so it
\* is due at every tick while the interval exists.  elapsed is
\* Date.now() - lastRealDataTime at the time of the callback.
PlaceholderInterval(elapsed) ==
  LET hasRecentRealData == elapsed < RECENT_MS
  IN IF PlaceholderActive /\ ~hasRecentRealData /\ elapsed > STALL_MS
       THEN /\ nextTs <= MaxLive
            /\ liveData' = Append(liveData,
                              [ ts |-> nextTs, x |-> PLACEHOLDER_X,
                                confidence |-> << ONE \div 2 >> ])
            /\ nextTs' = nextTs + 1
            /\ hPlaceholders' = hPlaceholders \cup { nextTs }
            /\ hLatePlaceholders' = hLatePlaceholders + (IF hStopped THEN 1 ELSE 0)
            /\ UNCHANGED workerChan
       ELSE UNCHANGED << liveData, nextTs, hPlaceholders, hLatePlaceholders,
                         workerChan >>

\* const pointsToUpload = [...uploadQueue]; setUploadQueue([]); axios.post(...)
Flush(queue) ==
  /\ uploadQueue' = << >>
  /\ inflight' = Append(inflight,
                    [ kind |-> "periodic", sid |-> currentSessionId,
                      points |-> queue, reply |-> "none", count |-> 0 ])

\* the callback of the upload interval, up to its await, when the interval
\* falls due at this tick; otherwise the interval goes on waiting
UploadInterval ==
  IF UploadActive /\ uploadElapsed + TickMs >= UPLOAD_INTERVAL_MS
    THEN /\ attempts < MaxAttempts
         /\ Flush(uploadQueue)
         /\ attempts' = attempts + 1
         /\ hLateAttempts' = hLateAttempts + (IF hStopped THEN 1 ELSE 0)
         /\ uploadElapsed' = 0
         /\ hQueueAge' = Min2(hQueueAge + TickMs, UPLOAD_INTERVAL_MS + TickMs)
    ELSE /\ uploadElapsed' = IF UploadActive THEN uploadElapsed + TickMs ELSE 0
         /\ hQueueAge' = IF UploadActive
                          THEN Min2(hQueueAge + TickMs, UPLOAD_INTERVAL_MS + TickMs)
                          ELSE hQueueAge
         /\ UNCHANGED << uploadQueue, inflight, attempts, hLateAttempts >>

\* TickMs of time pass and the interval callbacks that fall due run.  After a
\* real sample the model follows MaxQuietTicks ticks without another one.
Tick ==
  /\ sinceReal >= STALL_MS \/ sinceReal + TickMs <= MaxQuietTicks * TickMs
  /\ sinceReal' = Min2(sinceReal + TickMs, STALL_MS + TickMs)
  /\ PlaceholderInterval(Min2(sinceReal + TickMs, STALL_MS + TickMs))
  /\ UploadInterval
  /\ UNCHANGED << isRecording, isPaused, currentSessionId, uploadStats,
                  startPc, stopCtx, cleanup >>
  /\ UNCHANGED << serverVars, pureVars, hSubmitted, hAcked, hDelivered, hStopped,
                  hFinal >>

\* the ticks of a long silence of the detector, in one step: the upload
\* interval does not exist, the placeholder callback finds the last real
\* sample less than STALL_MS old at each of them and does nothing
Stall ==
  /\ sinceReal < STALL_MS
  /\ ~UploadActive
  /\ sinceReal' = STALL_MS
  /\ UNCHANGED << isRecording, isPaused, currentSessionId, liveData, uploadQueue,
                  uploadStats, nextTs, workerChan, uploadElapsed, inflight,
                  startPc, stopCtx, cleanup, attempts >>
  /\ UNCHANGED << serverVars, pureVars, histVars >>

(***************************************************************************)
(* Server: routes/points.ts, POST /sessions/:id/points.                    *)
(***************************************************************************)
\* an x for which typeof x !== 'number' || isNaN(x): no position is this low
NotNumber == 0 - 1000 * ONE

\* a faulty validation, to test C12: the timestamp is not looked at
ValidPointAnyTs(p) ==
  /\ p.x # NotNumber
  /\ p.confidence = << >> \/ (p.confidence[1] >= 0 /\ p.confidence[1] <= ONE)

\* the validation loop over the points of the body
ValidPoint(p) ==
  /\ p.x # NotNumber
  /\ p.ts > 0
  /\ p.confidence = << >> \/ (p.confidence[1] >= 0 /\ p.confidence[1] <= ONE)

\* processedPoints.map(point => ({sessionId, ts, xRaw, xFiltered, confidence}))
SamplesData(sessionId, processedPoints) ==
  [ i \in 1..Len(processedPoints) |->
      [ sessionId |-> sessionId,
        ts |-> processedPoints[i].ts,
        xRaw |-> processedPoints[i].x,
        xFiltered |-> processedPoints[i].x,
        confidence |-> IF processedPoints[i].confidence = << 0 >>
                       THEN << >> ELSE processedPoints[i].confidence ] ]

\* the handler on a body: its status, the rows it inserts and the count it
\* answers.  sessionRows: the ids in table Session; insertOk: whether
\* prisma.sample.createMany succeeds (its failure is caught and logged, and
\* the handler still answers 201)
PostPoints(sessionId, points, sessionRows, insertOk) ==
  LET bad == \/ Len(points) = 0
             \/ \E k \in 1..Len(points) : ~ValidPoint(points[k])
      samplesData == SamplesData(sessionId, ProcessPoints(points))
  IN IF bad THEN [ reply |-> "400", rows |-> << >>, count |-> 0 ]
     ELSE IF sessionId \notin sessionRows
       THEN [ reply |-> "404", rows |-> << >>, count |-> 0 ]
     ELSE IF insertOk
       THEN [ reply |-> "201", rows |-> samplesData, count |-> Len(samplesData) ]
     ELSE [ reply |-> "201", rows |-> << >>, count |-> 0 ]

\* the handler run on request i of the client
ServerAppendPoints(i, insertOk) ==
  /\ i \in 1..Len(inflight)
  /\ inflight[i].reply = "none"
  /\ LET req == inflight[i]
         res == PostPoints(req.sid, req.points, sessions, insertOk)
     IN /\ store' = store \o res.rows
        /\ inflight' = [ inflight EXCEPT ![i].reply = res.reply,
                                         ![i].count = res.count ]
        /\ hDelivered' = IF res.reply = "201"
                           THEN hDelivered \o TsOf(req.points)
                           ELSE hDelivered
  /\ UNCHANGED << isRecording, isPaused, currentSessionId, liveData, uploadQueue,
                  uploadStats, sinceReal, nextTs, workerChan, uploadElapsed,
                  startPc, stopCtx, cleanup, attempts >>
  /\ UNCHANGED << sessions, nextSession, pureVars, hSubmitted, hPlaceholders,
                  hAcked, hQueueAge, hStopped, hLateAttempts, hLatePlaceholders,
                  hFinal >>

(***************************************************************************)
(* Client: the continuations of the upload interval callback.              *)
(***************************************************************************)
\* updateUploadStats(uploaded, failed, batchSize)
updateUploadStats(uploaded, failed) ==
  uploadStats' = [ totalUploaded |-> uploadStats.totalUploaded + uploaded,
                   totalFailed |-> uploadStats.totalFailed + failed ]

\* the await returned: response.data.count is added to the statistics
UploadResolved(i) ==
  /\ i \in 1..Len(inflight)
  /\ inflight[i].kind = "periodic"
  /\ inflight[i].reply = "201"
  /\ updateUploadStats(inflight[i].count, 0)
  /\ hAcked' = hAcked \cup TsSet(inflight[i].points)
  /\ inflight' = RemoveAt(inflight, i)
  /\ UNCHANGED << isRecording, isPaused, currentSessionId, liveData, uploadQueue,
                  sinceReal, nextTs, workerChan, uploadElapsed, startPc,
                  stopCtx, cleanup, attempts >>
  /\ UNCHANGED << serverVars, pureVars, hSubmitted, hPlaceholders, hDelivered,
                  hQueueAge, hStopped, hLateAttempts, hLatePlaceholders, hFinal >>

\* p ++ prev, the functional update of the catch block
Requeue(pointsToUpload, prev) == pointsToUpload \o prev

\* the await threw (an error status, a network error or the 5 s timeout):
\* the batch is put back in front of the queue
UploadRejected(i) ==
  /\ i \in 1..Len(inflight)
  /\ inflight[i].kind = "periodic"
  /\ inflight[i].reply # "201"
  /\ uploadQueue' = Requeue(inflight[i].points, uploadQueue)
  /\ updateUploadStats(0, Len(inflight[i].points))
  /\ inflight' = RemoveAt(inflight, i)
  /\ UNCHANGED << isRecording, isPaused, currentSessionId, liveData, sinceReal,
                  nextTs, workerChan, startPc, stopCtx, cleanup, attempts >>
  /\ UploadEffect(TRUE, FALSE)
  /\ UNCHANGED << serverVars, pureVars, hSubmitted, hPlaceholders, hAcked,
                  hDelivered, hStopped, hLateAttempts, hLatePlaceholders, hFinal >>

\* the await threw on "timeout: 5000" although the server had handled the
\* request and answered 201: the response did not arrive within the five
\* seconds.  The catch block is the one of UploadRejected: the batch, which
\* the server holds, is put back in front of the queue
UploadTimedOut(i) ==
  /\ i \in 1..Len(inflight)
  /\ inflight[i].kind = "periodic"
  /\ inflight[i].reply = "201"
  /\ uploadQueue' = Requeue(inflight[i].points, uploadQueue)
  /\ updateUploadStats(0, Len(inflight[i].points))
  /\ inflight' = RemoveAt(inflight, i)
  /\ UNCHANGED << isRecording, isPaused, currentSessionId, liveData, sinceReal,
                  nextTs, workerChan, startPc, stopCtx, cleanup, attempts >>
  /\ UploadEffect(TRUE, FALSE)
  /\ UNCHANGED << serverVars, pureVars, hSubmitted, hPlaceholders, hAcked,
                  hDelivered, hStopped, hLateAttempts, hLatePlaceholders, hFinal >>

(***************************************************************************)
(* Client: stopRecording and cleanupEmptySession.                          *)
(***************************************************************************)
\* the end of stopRecording: "if (currentSessionId && uploadStats.totalUploaded
\* === 0) cleanupEmptySession(currentSessionId)", on the values of the render
\* in which stopRecording was called; the DELETE is sent and not awaited
StopTail(sid, totalUploaded) ==
  /\ cleanup' = IF sid # 0 /\ totalUploaded = 0
                 THEN [ state |-> "sent", sid |-> sid ]
                 ELSE cleanup
  /\ stopCtx' = NoStop

\* stopRecording, up to its await (or to its end when nothing is queued)
StopRecording ==
  /\ isRecording
  /\ stopCtx.pc = "idle"
  /\ cleanup.state = "none"
  /\ isRecording' = FALSE
  /\ isPaused' = FALSE
  /\ IF currentSessionId # 0 /\ Len(uploadQueue) > 0
       THEN /\ attempts < MaxAttempts
            /\ uploadQueue' = << >>
            /\ inflight' = Append(inflight,
                              [ kind |-> "final", sid |-> currentSessionId,
                                points |-> uploadQueue, reply |-> "none",
                                count |-> 0 ])
            /\ attempts' = attempts + 1
            /\ stopCtx' = [ pc |-> "awaitFinal", sid |-> currentSessionId,
                            points |-> uploadQueue,
                            totalUploaded |-> uploadStats.totalUploaded ]
            /\ hFinal' = [ failed |-> FALSE, sid |-> currentSessionId ]
            /\ hStopped' = FALSE
            /\ UNCHANGED cleanup
       ELSE /\ StopTail(currentSessionId, uploadStats.totalUploaded)
            /\ hFinal' = [ failed |-> FALSE, sid |-> currentSessionId ]
            /\ hStopped' = TRUE
            /\ UNCHANGED << uploadQueue, inflight, attempts >>
  /\ UNCHANGED << currentSessionId, liveData, uploadStats, sinceReal, nextTs,
                  workerChan, startPc >>
  /\ UploadEffect(Len(uploadQueue) > 0 /\ currentSessionId # 0, FALSE)
  /\ UNCHANGED << serverVars, pureVars, hSubmitted, hPlaceholders, hAcked,
                  hDelivered, hLateAttempts, hLatePlaceholders >>

\* the final append returned: statistics, then the end of stopRecording
FinalResolved(i) ==
  /\ i \in 1..Len(inflight)
  /\ inflight[i].kind = "final"
  /\ inflight[i].reply = "201"
  /\ updateUploadStats(inflight[i].count, 0)
  /\ hAcked' = hAcked \cup TsSet(inflight[i].points)
  /\ inflight' = RemoveAt(inflight, i)
  /\ StopTail(stopCtx.sid, stopCtx.totalUploaded)
  /\ hStopped' = (~isRecording /\ startPc = "idle")
  /\ UNCHANGED << isRecording, isPaused, currentSessionId, liveData, uploadQueue,
                  sinceReal, nextTs, workerChan, uploadElapsed, startPc,
                  attempts >>
  /\ UNCHANGED << serverVars, pureVars, hSubmitted, hPlaceholders, hDelivered,
                  hQueueAge, hLateAttempts, hLatePlaceholders, hFinal >>

\* the final append threw: the error is logged and counted, the batch is
\* not put back, then the end of stopRecording
FinalRejected(i) ==
  /\ i \in 1..Len(inflight)
  /\ inflight[i].kind = "final"
  /\ inflight[i].reply # "201"
  /\ updateUploadStats(0, Len(inflight[i].points))
  /\ inflight' = RemoveAt(inflight, i)
  /\ StopTail(stopCtx.sid, stopCtx.totalUploaded)
  /\ hStopped' = (~isRecording /\ startPc = "idle")
  /\ hFinal' = [ hFinal EXCEPT !.failed = TRUE ]
  /\ UNCHANGED << isRecording, isPaused, currentSessionId, liveData, uploadQueue,
                  sinceReal, nextTs, workerChan, uploadElapsed, startPc,
                  attempts >>
  /\ UNCHANGED << serverVars, pureVars, hSubmitted, hPlaceholders, hAcked,
                  hDelivered, hQueueAge, hLateAttempts, hLatePlaceholders >>

\* the rows of table Sample of a session
SamplesOf(sessionId) ==
  LET Belongs(row) == row.sessionId = sessionId
  IN SelectSeq(store, Belongs)

\* server, routes/sessions.ts, DELETE /sessions/:id, up to its second await:
\* the session is looked up with the count of its samples
ServerDeleteSession ==
  /\ cleanup.state = "sent"
  /\ cleanup' = [ cleanup EXCEPT !.state =
                    IF cleanup.sid \notin sessions THEN "404"
                    ELSE IF Len(SamplesOf(cleanup.sid)) > 0 THEN "400"
                    ELSE "found" ]
  /\ UNCHANGED << clientVarsButCleanup, serverVars, pureVars, histVars >>

\* a faulty deletion, to test C13: the rows of table Sample are left behind
ServerDeleteCommitNoCascade ==
  /\ cleanup.state = "found"
  /\ sessions' = sessions \ { cleanup.sid }
  /\ cleanup' = [ cleanup EXCEPT !.state = "200" ]
  /\ UNCHANGED << clientVarsButCleanup, nextSession, store, pureVars, histVars >>

\* prisma.session.delete: the row of the session goes, and with it the rows
\* of table Sample that refer to it (ON DELETE CASCADE)
ServerDeleteCommit ==
  /\ cleanup.state = "found"
  /\ sessions' = sessions \ { cleanup.sid }
  /\ store' = LET Other(row) == row.sessionId # cleanup.sid
              IN SelectSeq(store, Other)
  /\ cleanup' = [ cleanup EXCEPT !.state = "200" ]
  /\ UNCHANGED << clientVarsButCleanup, nextSession, pureVars, histVars >>

\* server, routes/points.ts, GET /sessions/:id/points with the default paging
GetPoints(sessionId) ==
  IF sessionId \notin sessions
    THEN [ reply |-> "404", points |-> << >> ]
    ELSE [ reply |-> "200", points |-> SortByTs(SamplesOf(sessionId)) ]

\* cleanupEmptySession after its await returned: setCurrentSessionId(null)
CleanupResolved ==
  /\ cleanup.state = "200"
  /\ currentSessionId' = 0
  /\ cleanup' = NoCleanup
  /\ UNCHANGED << isRecording, isPaused, liveData, uploadQueue, uploadStats,
                  sinceReal, nextTs, workerChan, inflight, startPc, stopCtx,
                  attempts >>
  /\ UploadEffect(FALSE, FALSE)
  /\ UNCHANGED << serverVars, pureVars, hSubmitted, hPlaceholders, hAcked,
                  hDelivered, hStopped, hLateAttempts, hLatePlaceholders, hFinal >>

\* cleanupEmptySession after its await threw: the error is logged
CleanupRejected ==
  /\ cleanup.state \in { "sent", "404", "400" }
  /\ cleanup' = NoCleanup
  /\ UNCHANGED << clientVarsButCleanup, serverVars, pureVars, histVars >>

(***************************************************************************)
(* The recorder and its server.                                            *)
(***************************************************************************)
Next ==
  \/ StartRecording
  \/ CreateSessionResolved
  \/ CreateSessionRejected
  \/ PauseRecording
  \/ ResumeRecording
  \/ \E eyeX \in EyeXVals : OnResults(eyeX)
  \/ WorkerOnMessage
  \/ Tick
  \/ Stall
  \/ \E i \in 1..MaxAttempts, insertOk \in BOOLEAN : ServerAppendPoints(i, insertOk)
  \/ \E i \in 1..MaxAttempts : UploadResolved(i)
  \/ \E i \in 1..MaxAttempts : UploadRejected(i)
  \/ \E i \in 1..MaxAttempts : UploadTimedOut(i)
  \/ StopRecording
  \/ \E i \in 1..MaxAttempts : FinalResolved(i)
  \/ \E i \in 1..MaxAttempts : FinalRejected(i)
  \/ ServerDeleteSession
  \/ ServerDeleteCommit
  \/ CleanupResolved
  \/ CleanupRejected

Spec == Init /\ [][Next]_vars

(***************************************************************************)
(* The recorder while every appendPoints call fails: no request reaches    *)
(* the server, each await throws.  The recording is not stopped.           *)
(***************************************************************************)
NextAllFail ==
  \/ StartRecording
  \/ CreateSessionResolved
  \/ CreateSessionRejected
  \/ PauseRecording
  \/ ResumeRecording
  \/ \E eyeX \in EyeXVals : OnResults(eyeX)
  \/ WorkerOnMessage
  \/ Tick
  \/ Stall
  \/ \E i \in 1..MaxAttempts : UploadRejected(i)

SpecAllFail == Init /\ [][NextAllFail]_vars

(***************************************************************************)
(* Properties of the transmission batcher.                                 *)
(***************************************************************************)
\* the sessions that were created and are no longer in table Session
DeletedSessions == (1..(nextSession - 1)) \ sessions

\* the timestamps of the rows of table Sample
StoredTs == { store[k].ts : k \in 1..Len(store) }

\* s is strictly increasing
Increasing(s) == \A i, j \in 1..Len(s) : i < j => s[i] < s[j]

\* no request is awaited and no worker message is pending
Quiet == inflight = << >> /\ workerChan = << >>

\* C1: while every appendPoints call fails, whenever no batch is in flight
\* and no worker message is pending, the pending queue holds every sample
\* submitted so far, exactly once, in submission order.
C1_QueueKeepsSubmissionOrder ==
  Quiet => TsOf(uploadQueue) = hSubmitted

\* C2: while no session has been deleted, every sample of a batch whose
\* appendPoints call returned success to the client is a row of table Sample.
C2_AckedIsStored ==
  DeletedSessions = {} => hAcked \subseteq StoredTs

\* C3: the samples delivered to the server by successful appendPoints calls
\* arrive in submission order (timestamps are the submission order).
C3_DeliveredInSubmissionOrder ==
  Increasing(hDelivered)

\* C4: while a session exists and the queue is not empty, the appendPoints
\* attempt is made within one flush interval of the creation of the upload
\* interval, however many samples are enqueued meanwhile.
C4_AttemptWithinOneInterval ==
  hQueueAge <= UPLOAD_INTERVAL_MS

\* C5: once stopRecording has completed with its final append failed, the
\* session it recorded is still a row of table Session.
C5_FailedFinalKeepsSession ==
  (hStopped /\ hFinal.failed) => hFinal.sid \in sessions

\* C6: after stopRecording has completed, no placeholder is injected and no
\* periodic appendPoints attempt is started.
C6_NothingStartsAfterStop ==
  hLatePlaceholders = 0 /\ hLateAttempts = 0

\* the timestamps of the points handed to the batcher: posted by the worker,
\* queued, or in a batch passed to appendPoints
BatcherTs ==
  UNION { TsSet(workerChan[k]) : k \in 1..Len(workerChan) }
    \cup TsSet(uploadQueue)
    \cup UNION { TsSet(inflight[k].points) : k \in 1..Len(inflight) }

\* C7: no placeholder is in the pending queue, in a worker message, in a
\* batch passed to appendPoints or in the store; every placeholder is in the
\* live buffer.
C7_PlaceholdersStayLive ==
  /\ hPlaceholders \cap (BatcherTs \cup StoredTs \cup { hDelivered[k] : k \in 1..Len(hDelivered) }) = {}
  /\ hPlaceholders \subseteq TsSet(liveData)

\* C7: a placeholder was injected while a batch holding an earlier real
\* sample was in flight, and a later real sample is in the pending queue.
C7_Witness ==
  \E t \in hPlaceholders :
    /\ t \in TsSet(liveData)
    /\ \E k \in 1..Len(inflight) : \E u \in TsSet(inflight[k].points) : u < t
    /\ \E k \in 1..Len(uploadQueue) : t < uploadQueue[k].ts

(***************************************************************************)
(* The server alone, fed arbitrary request bodies: a client puts a body    *)
(* together point by point, then the body is posted to                     *)
(* /sessions/1/points or handed to processAligned.                         *)
(***************************************************************************)
BodyXVals == { 0, ONE \div 2, 2 * ONE }

BodyConfVals == { << >>, << ONE \div 20 >>, << DETECTED_CONFIDENCE >> }

InitIngest ==
  /\ InitClient
  /\ InitHistory
  /\ InitPlayback
  /\ sessions = { 1 }
  /\ nextSession = 2
  /\ store = << >>

\* points that the validation must refuse: each has one bad field
BadPoints ==
  { [ ts |-> 1, x |-> NotNumber, confidence |-> << >> ],
    [ ts |-> 0, x |-> 0, confidence |-> << >> ],
    [ ts |-> 1, x |-> 0, confidence |-> << 2 * ONE >> ],
    [ ts |-> 1, x |-> 0, confidence |-> << 0 - ONE \div 20 >> ] }

\* one more point in the body; at most MaxBad of its points are bad
AddPoint(point) ==
  /\ fOut = << >>
  /\ Len(fIn) < MaxBatch
  /\ point \in BadPoints =>
       Cardinality({ k \in 1..Len(fIn) : fIn[k] \in BadPoints }) < MaxBad
  /\ fIn' = Append(fIn, point)
  /\ UNCHANGED << fOut, clientVars, serverVars, histVars, calibrationData, calOut, calibVars, zoomVars,
                  playbackVars >>

\* POST /sessions/<sessionId>/points with body fIn
PostBatch(sessionId, insertOk) ==
  /\ fOut = << >>
  /\ LET res == PostPoints(sessionId, fIn, sessions, insertOk)
     IN /\ store' = store \o res.rows
        /\ fOut' = << [ op |-> "post", sid |-> sessionId, reply |-> res.reply,
                        insertOk |-> insertOk /\ res.reply = "201",
                        rows |-> res.rows, aligned |-> << >> ] >>
  /\ UNCHANGED << fIn, clientVars, sessions, nextSession, histVars,
                  calibrationData, calOut, calibVars, zoomVars, playbackVars >>

\* processAligned(fIn), its argument typed {ts: number; x: number; ...}[]
AlignBatch ==
  /\ fOut = << >>
  /\ \A k \in 1..Len(fIn) : fIn[k].x # NotNumber
  /\ fOut' = << [ op |-> "aligned", sid |-> 0, reply |-> "none", insertOk |-> TRUE,
                  rows |-> << >>, aligned |-> processAligned(fIn) ] >>
  /\ UNCHANGED << fIn, clientVars, serverVars, histVars, calibrationData, calOut, calibVars, zoomVars,
                  playbackVars >>

NextIngest ==
  \/ \E ts \in 1..MaxTs, x \in BodyXVals, c \in BodyConfVals :
       AddPoint([ ts |-> ts, x |-> x, confidence |-> c ])
  \/ \E point \in BadPoints : AddPoint(point)
  \/ \E sessionId \in 1..nextSession, insertOk \in BOOLEAN :
       PostBatch(sessionId, insertOk)
  \/ AlignBatch

SpecIngest == InitIngest /\ [][NextIngest]_vars

\* the body was posted, accepted, and its insertion succeeded
Posted == fOut # << >> /\ fOut[1].op = "post" /\ fOut[1].reply = "201"
          /\ fOut[1].insertOk

\* the body was handed to processAligned
Aligned == fOut # << >> /\ fOut[1].op = "aligned"

\* C8: the pipeline of appendPoints and processAligned each return one output
\* per input point, in the order of the input (processAligned: of the input
\* sorted by time), with every filtered value in [-1, 1].
C8_OneOutputPerInput ==
  /\ Posted =>
       /\ Len(fOut[1].rows) = Len(fIn)
       /\ \A k \in 1..Len(fOut[1].rows) :
            /\ k <= Len(fIn) => fOut[1].rows[k].ts = fIn[k].ts
            /\ fOut[1].rows[k].xFiltered >= 0 - ONE
            /\ fOut[1].rows[k].xFiltered <= ONE
  /\ Aligned =>
       /\ Len(fOut[1].aligned) = Len(fIn)
       /\ TsOf(fOut[1].aligned) = TsOf(SortByTs(fIn))
       /\ \A k \in 1..Len(fOut[1].aligned) :
            /\ fOut[1].aligned[k].filtered >= 0 - ONE
            /\ fOut[1].aligned[k].filtered <= ONE

\* C9: after a body was stored, every point of the body has a row, and the
\* xRaw of every row is the x submitted for a point of that timestamp.
C9_RawIsPersisted ==
  Posted =>
    /\ \A j \in 1..Len(fIn) : fIn[j].ts \in StoredTs
    /\ \A k \in 1..Len(store) :
         \E j \in 1..Len(fIn) : fIn[j].ts = store[k].ts /\ fIn[j].x = store[k].xRaw

(***************************************************************************)
(* Calibration alone: references are recorded, raw positions are mapped.   *)
(***************************************************************************)
\* the raw positions the detector reports during calibration
GridStep == ONE \div 4

CalVals == { k * GridStep : k \in 0..MaxGrid }

RawVals == { k * GridStep : k \in (0 - 1)..(MaxGrid + 1) }

\* finishCalibration(position) with samples of mean avgX:
\* setCalibrationData(prev => ({...prev, [position]: {x: avgX}}))
finishCalibration(position, avgX) ==
  /\ calibrationData' = [ calibrationData EXCEPT ![position] = << avgX >> ]
  /\ calOut' = << >>
  /\ UNCHANGED << fIn, fOut, clientVars, serverVars, histVars, playbackVars,
                  calibVars, zoomVars >>

\* getCalibratedEyePosition(rawX) in a render that sees calibrationData
MapRaw(rawX) ==
  /\ calOut' = << [ raw |-> rawX,
                    out |-> getCalibratedEyePosition(rawX, calibrationData) ] >>
  /\ UNCHANGED << calibrationData, fIn, fOut, clientVars, serverVars, histVars,
                  playbackVars, calibVars, zoomVars >>

NextCalib ==
  \/ \E position \in { "left", "center", "right" }, avgX \in CalVals :
       finishCalibration(position, avgX)
  \/ \E rawX \in RawVals : MapRaw(rawX)

SpecCalib == Init /\ [][NextCalib]_vars

\* the three references are recorded and left < center < right
Ordered ==
  /\ calibrationData.left # << >>
  /\ calibrationData.center # << >>
  /\ calibrationData.right # << >>
  /\ calibrationData.left[1] < calibrationData.center[1]
  /\ calibrationData.center[1] < calibrationData.right[1]

\* C10: with left < center < right, the mapping of raw is the line through
\* (left, -1) and (center, 0) up to center, the line through (center, 0) and
\* (right, +1) above it, clamped to [-1, 1]; so left maps to -1, center to 0
\* and right to +1.
C10_PiecewiseLinear ==
  (Ordered /\ calOut # << >>) =>
    LET l == calibrationData.left[1]
        c == calibrationData.center[1]
        r == calibrationData.right[1]
        raw == calOut[1].raw
        out == calOut[1].out
    IN /\ ~out.nan
       /\ out.den > 0
       /\ out.num >= 0 - out.den /\ out.num <= out.den
       /\ raw = l => out.num = 0 - out.den
       /\ raw = c => out.num = 0
       /\ raw = r => out.num = out.den
       /\ raw < l => out.num = 0 - out.den
       /\ raw > r => out.num = out.den
       /\ (l <= raw /\ raw <= c) => out.num * (c - l) = out.den * (raw - c)
       /\ (c <= raw /\ raw <= r) => out.num * (r - c) = out.den * (raw - c)

\* C10: a raw position strictly between left and center, and left strictly
\* inside the grid, was mapped under an ordered calibration.
C10_Witness ==
  /\ Ordered
  /\ calOut # << >>
  /\ calibrationData.left[1] < calOut[1].raw
  /\ calOut[1].raw < calibrationData.center[1]
  /\ calOut[1].out.num # 0
  /\ calOut[1].out.num # 0 - calOut[1].out.den

\* the three references are recorded
Collected ==
  /\ calibrationData.left # << >>
  /\ calibrationData.center # << >>
  /\ calibrationData.right # << >>

\* C11: a calibration whose collected references are not in the order
\* left < center < right is rejected, so the calibration in effect, once its
\* three references are collected, is always ordered.
C11_OutOfOrderRejected ==
  Collected => Ordered

\* the body was posted
WasPosted == fOut # << >> /\ fOut[1].op = "post"

\* C12: a posted body holding a point with a non-numeric x, a timestamp that
\* is not positive or a confidence outside [0, 1] is answered 400 and stores
\* nothing; a body of acceptable points posted to an unknown session is
\* answered 404 and stores nothing.
C12_BadBodyRejected ==
  WasPosted =>
    LET refused(p) == \/ p.x = NotNumber
                      \/ p.ts <= 0
                      \/ p.confidence # << >> /\ p.confidence[1] < 0
                      \/ p.confidence # << >> /\ p.confidence[1] > ONE
        anyRefused == \E k \in 1..Len(fIn) : refused(fIn[k])
    IN /\ anyRefused => (fOut[1].reply = "400" /\ store = << >>)
       /\ (~anyRefused /\ Len(fIn) > 0 /\ fOut[1].sid \notin sessions) =>
            (fOut[1].reply = "404" /\ store = << >>)
       /\ fOut[1].reply \in { "400", "404" } => fOut[1].rows = << >>

\* C12: a body of three points whose last point is bad was posted to the
\* existing session while the database accepts insertions.
C12_Witness ==
  /\ WasPosted
  /\ Len(fIn) = 3
  /\ fIn[1] \notin BadPoints /\ fIn[2] \notin BadPoints /\ fIn[3] \in BadPoints
  /\ fOut[1].sid \in sessions
  /\ fOut[1].reply = "400"

\* C13: once a session is deleted, no row of table Sample refers to it and
\* listing its points answers 404 or an empty list.
C13_DeleteRemovesSamples ==
  \A sid \in DeletedSessions :
    /\ SamplesOf(sid) = << >>
    /\ GetPoints(sid).reply = "404" \/ GetPoints(sid).points = << >>

\* C13: a DELETE has just succeeded for a session of which samples had been
\* stored and counted by the client.
C13_Witness ==
  /\ cleanup.state = "200"
  /\ cleanup.sid \in DeletedSessions
  /\ uploadStats.totalUploaded > 0
  /\ \E k \in 1..Len(hDelivered) : hDelivered[k] \in hAcked

(***************************************************************************)
(* SessionPlayback.tsx: replay of a stored session.  The cursor            *)
(* currentTime is a JavaScript number of milliseconds; the increments of   *)
(* the playback interval are hundredths of the session's length times a    *)
(* speed that is a multiple of 0.25, so the model counts time in units of  *)
(* 1/TimeScale ms and the speed in quarters, which keeps every cursor an   *)
(* integer.  Rounding of the floating-point sums is not modelled.          *)
(***************************************************************************)
MaxPoints == 3

MaxPlayTs == 3

TimeScale == 100 * 4

\* <option value={...}>: 0.25x, 0.5x, 1x, 2x, 4x, 8x, in quarters
SpeedOptions == { 1, 2, 4, 8, 16, 32 }

MaxScrub == 20

\* <input type="range" min="0" max="100">: MaxScrub + 1 positions of the
\* slider, both ends among them
ScrubberValues == { (100 * k) \div MaxScrub : k \in 0..MaxScrub }

\* spacing of the timestamps (Date.now(), in ms) of the series replayed
PlayTsStep == 5 * 1000

\* the answers of GET /sessions/:id/points: rows ordered by ts ascending
\* (ts is not unique); the x of the k-th row is told apart by k
PlaySeries ==
  UNION { { [ k \in 1..n |-> [ ts |-> PlayTsStep * f[k], x |-> (k - 1) * (ONE \div 4) ] ] :
              f \in { g \in [ 1..n -> 1..MaxPlayTs ] :
                        \A k \in 1..(n - 1) : g[k] <= g[k + 1] } } :
          n \in 1..MaxPoints }

\* parseInt(points[0].ts) and parseInt(points[points.length - 1].ts)
startTime == pbPoints[1].ts

endTime == pbPoints[Len(pbPoints)].ts

\* the controls are rendered once points.length > 0
ControlsShown == pbPoints # << >>

\* loadSessionData: setPoints(pointsData), then the effect on [points]:
\* setDuration(endTime - startTime); setCurrentTime(startTime)
LoadSessionData(series) ==
  /\ pbPoints = << >>
  /\ pbPoints' = series
  /\ duration' = series[Len(series)].ts - series[1].ts
  /\ currentTime' = TimeScale * series[1].ts
  /\ UNCHANGED << isPlaying, playbackSpeed >>
  /\ UNCHANGED << clientVars, serverVars, histVars, fIn, fOut, calibrationData, calOut, calibVars, zoomVars >>

\* togglePlayback: setIsPlaying(!isPlaying)
togglePlayback ==
  /\ ControlsShown
  /\ isPlaying' = ~isPlaying
  /\ UNCHANGED << pbPoints, currentTime, playbackSpeed, duration >>
  /\ UNCHANGED << clientVars, serverVars, histVars, fIn, fOut, calibrationData, calOut, calibVars, zoomVars >>

\* stopPlayback: setIsPlaying(false); setCurrentTime(parseInt(points[0].ts))
stopPlayback ==
  /\ ControlsShown
  /\ isPlaying' = FALSE
  /\ currentTime' = TimeScale * startTime
  /\ UNCHANGED << pbPoints, playbackSpeed, duration >>
  /\ UNCHANGED << clientVars, serverVars, histVars, fIn, fOut, calibrationData, calOut, calibVars, zoomVars >>

\* resetPlayback: setCurrentTime(parseInt(points[0].ts)); setIsPlaying(false)
resetPlayback ==
  /\ ControlsShown
  /\ currentTime' = TimeScale * startTime
  /\ isPlaying' = FALSE
  /\ UNCHANGED << pbPoints, playbackSpeed, duration >>
  /\ UNCHANGED << clientVars, serverVars, histVars, fIn, fOut, calibrationData, calOut, calibVars, zoomVars >>

\* a seek that also pauses
seekToTimePausing(time) ==
  /\ currentTime' = time
  /\ isPlaying' = FALSE
  /\ UNCHANGED << pbPoints, playbackSpeed, duration >>
  /\ UNCHANGED << clientVars, serverVars, histVars, fIn, fOut, calibrationData, calOut, calibVars, zoomVars >>

\* seekToTime(time): setCurrentTime(time)
seekToTime(time) ==
  /\ currentTime' = time
  /\ UNCHANGED << pbPoints, isPlaying, playbackSpeed, duration >>
  /\ UNCHANGED << clientVars, serverVars, histVars, fIn, fOut, calibrationData, calOut, calibVars, zoomVars >>

\* handleScrubberChange: seekToTime(startTime + (value / 100) * (endTime - startTime))
handleScrubberChange(value) ==
  /\ ControlsShown
  /\ seekToTime(TimeScale * startTime
                  + (TimeScale \div 100) * value * (endTime - startTime))

\* handleSpeedChange: setPlaybackSpeed(parseFloat(e.target.value))
handleSpeedChange(speed) ==
  /\ ControlsShown
  /\ playbackSpeed' = speed
  /\ UNCHANGED << pbPoints, isPlaying, currentTime, duration >>
  /\ UNCHANGED << clientVars, serverVars, histVars, fIn, fOut, calibrationData, calOut, calibVars, zoomVars >>

\* timeIncrement = (actualDuration / 100) * playbackSpeed, in 1/TimeScale ms
timeIncrement == (endTime - startTime) * playbackSpeed

\* the interval callback with `return newTime' on both branches
PlaybackIntervalUnclamped ==
  /\ isPlaying
  /\ duration > 0
  /\ LET newTime == currentTime + timeIncrement
     IN /\ currentTime' = newTime
        /\ isPlaying' = (newTime < TimeScale * endTime)
  /\ UNCHANGED << pbPoints, playbackSpeed, duration >>
  /\ UNCHANGED << clientVars, serverVars, histVars, fIn, fOut, calibrationData, calOut, calibVars, zoomVars >>

\* the callback of the interval that exists while isPlaying && duration > 0:
\* setCurrentTime(prev => newTime >= endTime ? (setIsPlaying(false), endTime) : newTime)
PlaybackInterval ==
  /\ isPlaying
  /\ duration > 0
  /\ LET newTime == currentTime + timeIncrement
     IN IF newTime >= TimeScale * endTime
        THEN /\ isPlaying' = FALSE
             /\ currentTime' = TimeScale * endTime
        ELSE /\ currentTime' = newTime
             /\ UNCHANGED isPlaying
  /\ UNCHANGED << pbPoints, playbackSpeed, duration >>
  /\ UNCHANGED << clientVars, serverVars, histVars, fIn, fOut, calibrationData, calOut, calibVars, zoomVars >>

NextPlayback ==
  \/ \E series \in PlaySeries : LoadSessionData(series)
  \/ togglePlayback
  \/ stopPlayback
  \/ resetPlayback
  \/ \E value \in ScrubberValues : handleScrubberChange(value)
  \/ \E speed \in SpeedOptions : handleSpeedChange(speed)
  \/ PlaybackInterval

SpecPlayback == Init /\ [][NextPlayback]_vars

\* C14: once a non-empty series is loaded, whatever sequence of play, pause,
\* seek, stop and tick has happened, the cursor lies between the first and
\* the last timestamp of the series.
C14_CursorWithinSeries ==
  pbPoints # << >> =>
    /\ TimeScale * startTime <= currentTime
    /\ currentTime <= TimeScale * endTime

\* a playback that ran into the end of a series longer than one instant and
\* was stopped there by the clamp
C14_Witness ==
  /\ pbPoints # << >>
  /\ duration > 0
  /\ ~isPlaying
  /\ currentTime = TimeScale * endTime
  /\ playbackSpeed = 32

\* setInterval(..., 100): the period of the playback interval, in ms
PLAYBACK_TICK_MS == 100

\* the step is a tick of the playback interval that the clamp did not cut
UnclampedTick ==
  /\ PlaybackInterval
  /\ currentTime + timeIncrement < TimeScale * endTime

\* C15: while playing, a tick that the clamp to the last timestamp does not
\* cut advances the cursor by exactly 100 ms of session time times the
\* speed multiplier.
C15_TickAdvancesByTickTimesSpeed ==
  [][ UnclampedTick =>
        currentTime' - currentTime
          = PLAYBACK_TICK_MS * (TimeScale \div 4) * playbackSpeed ]_vars

\* playback left alone: the user acts only while nothing is playing, and the
\* browser keeps calling the callback of an interval that exists
NextUnattended ==
  \/ \E series \in PlaySeries : LoadSessionData(series)
  \/ ~isPlaying /\ togglePlayback
  \/ ~isPlaying /\ \E value \in ScrubberValues : handleScrubberChange(value)
  \/ ~isPlaying /\ \E speed \in SpeedOptions : handleSpeedChange(speed)
  \/ PlaybackInterval

SpecUnattended ==
  Init /\ [][NextUnattended]_vars /\ WF_vars(PlaybackInterval)

\* C16: once play() has been pressed on a non-empty series and no further
\* input is given, the cursor eventually reaches the last timestamp and the
\* playback stops by itself, also when the first and the last timestamp are
\* equal.
C16_PlayRunsToTheEnd ==
  isPlaying ~> ( /\ ~isPlaying
                 /\ pbPoints # << >>
                 /\ currentTime = TimeScale * endTime )

\* the step is a seek made with the scrubber
Seek == \E value \in ScrubberValues : handleScrubberChange(value)

\* the step moves the cursor of a loaded series
CursorMoves == pbPoints # << >> /\ currentTime' # currentTime

\* C17 as stated: only a tick while playing and a seek move the cursor (so
\* that after a pause it stays where it is until play or seek), and a seek
\* leaves the playing state as it is.
C17_OnlyTickAndSeekMoveCursor ==
  [][ /\ CursorMoves => (PlaybackInterval \/ Seek)
      /\ isPlaying' # isPlaying => ~Seek ]_vars

\* C17: only a tick while playing, a seek, and a stop or reset (which put
\* the cursor back on the first timestamp) move the cursor; pause and play
\* leave it where it is, and a seek leaves the playing state as it is.
C17_CursorFrame ==
  [][ /\ CursorMoves =>
           \/ PlaybackInterval
           \/ Seek
           \/ (stopPlayback \/ resetPlayback) /\ currentTime' = TimeScale * startTime
      /\ isPlaying' # isPlaying => ~Seek ]_vars

\* paused in the middle of a series, where only ticks can have brought the
\* cursor (no scrubber position lies a quarter of a hundredth in)
C17_Witness ==
  /\ pbPoints # << >>
  /\ ~isPlaying
  /\ duration > 0
  /\ currentTime = TimeScale * startTime + timeIncrement
  /\ playbackSpeed = 1

(***************************************************************************)
(* The sample shown for the cursor.  Positions in pbPoints count from 1,   *)
(* one more than the index of the source.                                  *)
(***************************************************************************)
\* Math.abs(parseInt(point.ts) - currentTime), in 1/TimeScale ms
DiffToCursor(point) == Abs(TimeScale * point.ts - currentTime)

RECURSIVE IndexLoopLastTie(_, _, _)
\* the loop of getCurrentSampleIndex with `diff <= minDiff'
IndexLoopLastTie(i, closestIndex, minDiff) ==
  IF i > Len(pbPoints)
  THEN closestIndex
  ELSE LET diff == DiffToCursor(pbPoints[i])
       IN IF diff <= minDiff
          THEN IndexLoopLastTie(i + 1, i, diff)
          ELSE IndexLoopLastTie(i + 1, closestIndex, minDiff)

RECURSIVE IndexLoop(_, _, _)
\* for (let i = 0; i < points.length; i++) { if (diff < minDiff) {...} }
IndexLoop(i, closestIndex, minDiff) ==
  IF i > Len(pbPoints)
  THEN closestIndex
  ELSE LET diff == DiffToCursor(pbPoints[i])
       IN IF diff < minDiff
          THEN IndexLoop(i + 1, i, diff)
          ELSE IndexLoop(i + 1, closestIndex, minDiff)

\* the index of the latest of the nearest samples
getCurrentSampleIndexLastTie ==
  IF pbPoints = << >>
  THEN 1
  ELSE IndexLoopLastTie(1, 1, DiffToCursor(pbPoints[1]))

\* getCurrentSampleIndex(), plus one
getCurrentSampleIndex ==
  IF pbPoints = << >>
  THEN 1
  ELSE IndexLoop(1, 1, DiffToCursor(pbPoints[1]))

RECURSIVE PointLoop(_, _, _)
\* for (const point of points) { if (diff < minDiff) {...} }
PointLoop(i, closestPoint, minDiff) ==
  IF i > Len(pbPoints)
  THEN closestPoint
  ELSE LET diff == DiffToCursor(pbPoints[i])
       IN IF diff < minDiff
          THEN PointLoop(i + 1, pbPoints[i], diff)
          ELSE PointLoop(i + 1, closestPoint, minDiff)

\* getCurrentXValue()
getCurrentXValue ==
  IF pbPoints = << >>
  THEN 0
  ELSE PointLoop(1, pbPoints[1], DiffToCursor(pbPoints[1])).x

\* C18: for a loaded (sorted, non-empty) series and any cursor a seek or a
\* tick has set, the sample found for the cursor is one at minimal distance
\* |ts - t|, the earliest of them when several are equally near, and the
\* value shown is the x of the sample whose index is shown.
C18_NearestSampleEarliestTie ==
  pbPoints # << >> =>
    LET i == getCurrentSampleIndex
    IN /\ i \in 1..Len(pbPoints)
       /\ \A j \in 1..Len(pbPoints) :
            /\ DiffToCursor(pbPoints[i]) <= DiffToCursor(pbPoints[j])
            /\ j < i => DiffToCursor(pbPoints[i]) < DiffToCursor(pbPoints[j])
       /\ getCurrentXValue = pbPoints[i].x

\* the cursor lies exactly midway between two samples of different
\* timestamps, with no sample nearer, and the earlier one is shown
C18_Witness ==
  /\ pbPoints # << >>
  /\ \E i \in 1..(Len(pbPoints) - 1) :
       /\ pbPoints[i].ts < pbPoints[i + 1].ts
       /\ 2 * currentTime = TimeScale * (pbPoints[i].ts + pbPoints[i + 1].ts)
       /\ getCurrentSampleIndex <= i
       /\ getCurrentXValue = pbPoints[getCurrentSampleIndex].x

(***************************************************************************)
(* EyeTracker.tsx: the chart window over liveData and the effect that      *)
(* bounds its memory.  Here nextTs is Date.now() in ms, counted from the   *)
(* load of the page, so that the readings fit the integers of the checker; *)
(* a reading is never below 1e12 - (the time of the load), which is        *)
(* negative.                                                               *)
(***************************************************************************)
WINDOW_MS == 15000

LIVE_CAP == 5000

CAP_AGE_MS == 5 * 60000

\* toMs = (ts) => (ts < 1e12 ? ts * 1000 : ts), with 1e12 counted from the load
toMs(ts) == IF ts < 0 THEN ts * 1000 ELSE ts

\* latestTs of a render whose liveData is data, at time now
latestTsOf(data, now) ==
  IF Len(data) = 0 THEN now ELSE toMs(data[Len(data)].ts)

latestTs == latestTsOf(liveData, nextTs)

\* liveData.map(p => ({...p, ts: toMs(p.ts)})).filter(p => p.ts >= start && p.ts <= end)
WindowOf(data, end) ==
  LET start == end - WINDOW_MS
      mapped == [ k \in 1..Len(data) |-> [ data[k] EXCEPT !.ts = toMs(data[k].ts) ] ]
      InWindow(p) == p.ts >= start /\ p.ts <= end
  IN SelectSeq(mapped, InWindow)

\* a window that ends at the wall clock
windowedDataWallClock == WindowOf(liveData, nextTs)

windowedData == WindowOf(liveData, latestTs)

\* the effect on [liveData.length, latestTs] of the render that shows data
CapEffect(data, now) ==
  IF Len(data) > LIVE_CAP
  THEN LET cutoff == latestTsOf(data, now) - CAP_AGE_MS
           Recent(p) == toMs(p.ts) >= cutoff
       IN SelectSeq(data, Recent)
  ELSE data

MaxBursts == 5

MaxOver == 2

MaxSilences == 2

\* the clock is followed for MaxNowSec seconds
MaxNowSec == 800

\* ms between two results of the detector while the face is in view
FrameMs == 33

\* lengths of the silences of the detector
SilenceGaps == { WINDOW_MS + 1000, CAP_AGE_MS + 1000 }

\* n results of the detector, FrameMs apart, outside a recording
FramePoints(n, now) ==
  [ k \in 1..n |-> [ ts |-> now + (k - 1) * FrameMs,
                     x |-> getCalibratedEyePosition(ONE \div 2, NullCalibration).num,
                     confidence |-> << DETECTED_CONFIDENCE >> ] ]

\* the results that one step follows: a run of them while the effect cannot
\* act on any of the renders in between, one result otherwise
FramesInStep ==
  IF Len(liveData) < LIVE_CAP
  THEN Min2(LIVE_CAP \div MaxBursts, LIVE_CAP - Len(liveData))
  ELSE 1

\* the silences that show in liveData
SilencesIn(data) ==
  Cardinality({ k \in 1..(Len(data) - 1) : data[k + 1].ts - data[k].ts > FrameMs })

\* onResults outside a recording: setLiveData(prev => [...prev, point]) with
\* ts = Date.now(), then the effects of the render
DetectorFrames ==
  /\ ~isRecording
  /\ Len(liveData) < LIVE_CAP + MaxOver
  /\ nextTs + FramesInStep * FrameMs <= MaxNowSec * 1000
  /\ liveData' = CapEffect(liveData \o FramePoints(FramesInStep, nextTs),
                           nextTs + FramesInStep * FrameMs)
  /\ nextTs' = nextTs + FramesInStep * FrameMs
  /\ UNCHANGED << isRecording, isPaused, currentSessionId, uploadQueue, uploadStats,
                  sinceReal, workerChan, uploadElapsed, inflight, startPc, stopCtx,
                  cleanup, attempts >>
  /\ UNCHANGED << serverVars, pureVars, histVars >>

\* the detector finds no face for gap ms
Silence(gap) ==
  /\ liveData # << >>
  /\ nextTs = liveData[Len(liveData)].ts + FrameMs
  /\ SilencesIn(liveData) < MaxSilences
  /\ nextTs + gap <= MaxNowSec * 1000
  /\ nextTs' = nextTs + gap
  /\ UNCHANGED << isRecording, isPaused, currentSessionId, liveData, uploadQueue,
                  uploadStats, sinceReal, workerChan, uploadElapsed, inflight,
                  startPc, stopCtx, cleanup, attempts >>
  /\ UNCHANGED << serverVars, pureVars, histVars >>

NextLive ==
  \/ DetectorFrames
  \/ \E gap \in SilenceGaps : Silence(gap)

SpecLive == Init /\ [][NextLive]_vars

\* the latest timestamp among the samples of the buffer
LatestInBuffer ==
  LET last == liveData[Len(liveData)].ts
  IN IF \A k \in 1..Len(liveData) : liveData[k].ts <= last
     THEN last
     ELSE CHOOSE t \in TsSet(liveData) : \A u \in TsSet(liveData) : u <= t

\* C19: after every append, the windowed view holds exactly the buffered
\* samples whose timestamp lies in [latest - 15000, latest], in their order,
\* latest being the latest timestamp in the buffer and not the wall clock.
C19_WindowFollowsLatestSample ==
  liveData # << >> =>
    \A latest \in { LatestInBuffer } :
      LET InLatestWindow(p) == p.ts >= latest - WINDOW_MS /\ p.ts <= latest
      IN windowedData = SelectSeq(liveData, InLatestWindow)

\* results after a silence longer than the window: the view has dropped the
\* samples from before the silence, and the clock is ahead of the last one
C19_Witness ==
  /\ liveData # << >>
  /\ Len(windowedData) > 0
  /\ Len(windowedData) < Len(liveData)
  /\ nextTs > LatestInBuffer + WINDOW_MS

\* C20: the live buffer never holds more than 5000 samples; the oldest are
\* evicted first.
C20_BufferCappedAtLiveCap == Len(liveData) <= LIVE_CAP

(***************************************************************************)
(* processing/analytics.ts, the worker of EyeTracker.tsx and calculateStats *)
(* of SessionPlayback.tsx.  A sample is [ts, xRaw, xFiltered, confidence], *)
(* an optional field being << >> or << v >>; a velocity is the fraction    *)
(* num / den of a position in units of 1 / ONE over a time in ms.          *)
(***************************************************************************)
\* curr.xFiltered !== undefined ? curr.xFiltered : curr.xRaw
FilteredOrRaw(sample) ==
  IF sample.xFiltered # << >> THEN sample.xFiltered[1] ELSE sample.xRaw

RECURSIVE VelocityLoopZeroFill(_, _, _)
\* the loop of calculateVelocity with an entry of velocity 0 where dt <= 0
VelocityLoopZeroFill(samples, i, velocities) ==
  IF i > Len(samples)
  THEN velocities
  ELSE LET dt == samples[i].ts - samples[i - 1].ts
           dx == FilteredOrRaw(samples[i]) - FilteredOrRaw(samples[i - 1])
       IN VelocityLoopZeroFill(samples, i + 1,
            Append(velocities,
                   IF dt > 0
                   THEN [ ts |-> samples[i].ts, num |-> Abs(dx), den |-> dt ]
                   ELSE [ ts |-> samples[i].ts, num |-> 0, den |-> 1 ]))

calculateVelocityZeroFill(samples) ==
  IF Len(samples) < 2 THEN << >> ELSE VelocityLoopZeroFill(samples, 2, << >>)

RECURSIVE VelocityLoop(_, _, _)
\* for (let i = 1; i < samples.length; i++) { ... if (dt > 0) velocities.push(...) }
VelocityLoop(samples, i, velocities) ==
  IF i > Len(samples)
  THEN velocities
  ELSE LET dt == samples[i].ts - samples[i - 1].ts
           dx == FilteredOrRaw(samples[i]) - FilteredOrRaw(samples[i - 1])
       IN VelocityLoop(samples, i + 1,
            IF dt > 0
            THEN Append(velocities,
                        [ ts |-> samples[i].ts, num |-> Abs(dx), den |-> dt ])
            ELSE velocities)

\* export function calculateVelocity(samples)
calculateVelocity(samples) ==
  IF Len(samples) < 2 THEN << >> ELSE VelocityLoop(samples, 2, << >>)

RECURSIVE WorkerVelocityLoop(_, _, _)
\* the worker: velocity = dt > 0 ? dx / dt : 0, pushed for every pair
WorkerVelocityLoop(points, i, velocities) ==
  IF i > Len(points)
  THEN velocities
  ELSE LET dt == points[i].ts - points[i - 1].ts
           dx == points[i].x - points[i - 1].x
       IN WorkerVelocityLoop(points, i + 1,
            Append(velocities,
                   IF dt > 0
                   THEN [ ts |-> points[i].ts, num |-> dx, den |-> dt ]
                   ELSE [ ts |-> points[i].ts, num |-> 0, den |-> 1 ]))

\* function calculateVelocity(points) of the worker
workerCalculateVelocity(points) ==
  IF Len(points) < 2 THEN << >> ELSE WorkerVelocityLoop(points, 2, << >>)

RECURSIVE StatsLoop(_, _, _)
\* calculateStats: if (dt > 0) velocities.push(Math.abs(dx / dt))
StatsLoop(points, i, velocities) ==
  IF i > Len(points)
  THEN velocities
  ELSE LET dt == points[i].ts - points[i - 1].ts
           dx == points[i].x - points[i - 1].x
       IN StatsLoop(points, i + 1,
            IF dt > 0
            THEN Append(velocities, [ num |-> Abs(dx), den |-> dt ])
            ELSE velocities)

\* the velocities of calculateStats
statsVelocities(points) == StatsLoop(points, 2, << >>)

\* points {ts, x, confidence} of the client that carry the positions of samples
AsPoints(samples) ==
  [ k \in 1..Len(samples) |->
      [ ts |-> samples[k].ts, x |-> FilteredOrRaw(samples[k]),
        confidence |-> samples[k].confidence ] ]

SampleTsVals == 1..(MaxTs + 1)

SampleXVals == { 0, ONE \div 20, ONE \div 2 }

SampleFilteredVals == { << >>, << 0 >> }

\* one more sample in the sequence fIn
AddSample(sample) ==
  /\ fOut = << >>
  /\ Len(fIn) < MaxBatch
  /\ fIn' = Append(fIn, sample)
  /\ UNCHANGED << fOut, clientVars, serverVars, histVars, calibrationData, calOut, calibVars, zoomVars,
                  playbackVars >>

\* the velocities of fIn: by the analytics, by calculateStats on the same
\* samples as points, and by the worker on each sample as onResults posts it
Velocities ==
  /\ fOut = << >>
  /\ fOut' = << [ op |-> "velocity",
                  velocities |-> calculateVelocity(fIn),
                  stats |-> statsVelocities(AsPoints(fIn)),
                  worker |-> [ k \in 1..Len(fIn) |->
                                 workerCalculateVelocity(<< AsPoints(fIn)[k] >>) ] ] >>
  /\ UNCHANGED << fIn, clientVars, serverVars, histVars, calibrationData, calOut, calibVars, zoomVars,
                  playbackVars >>

SACCADE_THRESHOLD == ONE \div 20

SaccadeThresholds == { SACCADE_THRESHOLD, ONE \div 2 }

\* a saccade test that also takes a velocity equal to the threshold
detectSaccadesInclusive(velocities, threshold) ==
  LET Fast(v) == v.num >= threshold * v.den
      fast == SelectSeq(velocities, Fast)
  IN [ k \in 1..Len(fast) |-> fast[k].ts ]

\* velocities.filter(v => v.velocity > threshold).map(v => v.ts)
detectSaccades(velocities, threshold) ==
  LET Fast(v) == v.num > threshold * v.den
      fast == SelectSeq(velocities, Fast)
  IN [ k \in 1..Len(fast) |-> fast[k].ts ]

\* calculateSaccadeFrequency(saccades, duration), duration = durationMs / 1000 s
calculateSaccadeFrequency(saccades, durationMs) ==
  IF durationMs <= 0
  THEN [ num |-> 0, den |-> 1 ]
  ELSE [ num |-> Len(saccades) * 1000, den |-> durationMs ]

\* (lastTs - firstTs) / 1000 of analyzeEyeTrackingData, in ms
DurationMs(samples) == samples[Len(samples)].ts - samples[1].ts

\* detectSaccades(calculateVelocity(fIn), threshold) and the frequency that
\* analyzeEyeTrackingData derives from it
Saccades(threshold) ==
  /\ fOut = << >>
  /\ fIn # << >>
  /\ LET saccades == detectSaccades(calculateVelocity(fIn), threshold)
     IN fOut' = << [ op |-> "saccades", threshold |-> threshold,
                     saccades |-> saccades,
                     saccadeFrequency |->
                       calculateSaccadeFrequency(saccades, DurationMs(fIn)) ] >>
  /\ UNCHANGED << fIn, clientVars, serverVars, histVars, calibrationData, calOut, calibVars, zoomVars,
                  playbackVars >>

FIXATION_THRESHOLD == ONE \div 100

\* values given for minDuration, in ms
MinDurations == { 1, 2 }

RECURSIVE FixationLoop(_, _, _, _, _)
\* for (let i = 0; i < velocities.length; i++) { ... }; fixationStart is
\* << >> for null
FixationLoop(velocities, i, fixationStart, fixations, cfg) ==
  IF i > Len(velocities)
  THEN [ fixationStart |-> fixationStart, fixations |-> fixations ]
  ELSE LET velocity == velocities[i]
       IN IF velocity.num < cfg.velocityThreshold * velocity.den
          THEN FixationLoop(velocities, i + 1,
                 IF fixationStart = << >> THEN << velocity.ts >> ELSE fixationStart,
                 fixations, cfg)
          ELSE IF fixationStart # << >>
          THEN LET dur == velocity.ts - fixationStart[1]
               IN FixationLoop(velocities, i + 1, << >>,
                    IF dur >= cfg.minDuration
                    THEN Append(fixations,
                                [ start |-> fixationStart[1], end |-> velocity.ts,
                                  duration |-> dur ])
                    ELSE fixations,
                    cfg)
          ELSE FixationLoop(velocities, i + 1, << >>, fixations, cfg)

\* export function calculateFixations(samples, velocityThreshold, minDuration)
calculateFixations(samples, velocityThreshold, minDuration) ==
  LET loop == FixationLoop(calculateVelocity(samples), 1, << >>, << >>,
                [ velocityThreshold |-> velocityThreshold,
                  minDuration |-> minDuration ])
  IN IF loop.fixationStart # << >>
     THEN LET lastTs == samples[Len(samples)].ts
              dur == lastTs - loop.fixationStart[1]
          IN IF dur >= minDuration
             THEN Append(loop.fixations,
                         [ start |-> loop.fixationStart[1], end |-> lastTs,
                           duration |-> dur ])
             ELSE loop.fixations
     ELSE loop.fixations

\* calculateFixations(fIn, 0.01, minDuration)
Fixations(minDuration) ==
  /\ fOut = << >>
  /\ fOut' = << [ op |-> "fixations", minDuration |-> minDuration,
                  fixations |->
                    calculateFixations(fIn, FIXATION_THRESHOLD, minDuration) ] >>
  /\ UNCHANGED << fIn, clientVars, serverVars, histVars, calibrationData, calOut, calibVars, zoomVars,
                  playbackVars >>

NextAnalytics ==
  \/ \E ts \in SampleTsVals, x \in SampleXVals, f \in SampleFilteredVals :
       AddSample([ ts |-> ts, xRaw |-> x, xFiltered |-> f, confidence |-> << >> ])
  \/ Velocities
  \/ \E threshold \in SaccadeThresholds : Saccades(threshold)
  \/ \E minDuration \in MinDurations : Fixations(minDuration)

SpecAnalytics == Init /\ [][NextAnalytics]_vars

\* the positions of fIn whose pair with the sample before has dt > 0
PositivePairs ==
  { i \in 2..Len(fIn) : fIn[i].ts - fIn[i - 1].ts > 0 }

\* the n-th smallest element of a set of numbers
RECURSIVE NthOf(_, _)
NthOf(set, n) ==
  LET least == CHOOSE v \in set : \A w \in set : v <= w
  IN IF n = 1 THEN least ELSE NthOf(set \ { least }, n - 1)

SaccadePairs(threshold) ==
  { i \in PositivePairs :
      Abs(FilteredOrRaw(fIn[i]) - FilteredOrRaw(fIn[i - 1]))
        > threshold * (fIn[i].ts - fIn[i - 1].ts) }

\* C22: a transition is a saccade exactly when its velocity is strictly
\* greater than the threshold the caller gave (0.05 by default), and the
\* saccade frequency is the number of saccades divided by the duration of
\* the series in seconds, 0 when the duration is not positive.
C22_SaccadesAboveThreshold ==
  (fOut # << >> /\ fOut[1].op = "saccades") =>
    LET out == fOut[1]
        pairs == SaccadePairs(out.threshold)
    IN /\ Len(out.saccades) = Cardinality(pairs)
       /\ \A k \in 1..Len(out.saccades) :
            out.saccades[k] = fIn[NthOf(pairs, k)].ts
       /\ IF DurationMs(fIn) > 0
          THEN /\ out.saccadeFrequency.num
                    = Cardinality(pairs) * 1000
               /\ out.saccadeFrequency.den = DurationMs(fIn)
          ELSE out.saccadeFrequency.num = 0

\* under the default threshold: one transition at exactly 0.05 per ms, not
\* counted, and one above it, counted, in a series of positive duration
C22_Witness ==
  /\ fOut # << >>
  /\ fOut[1].op = "saccades"
  /\ fOut[1].threshold = SACCADE_THRESHOLD
  /\ Len(fIn) = 3
  /\ \A k \in 1..3 : fIn[k].ts = k /\ fIn[k].xFiltered = << >>
  /\ fIn[1].xRaw = 0
  /\ fIn[2].xRaw = ONE \div 20
  /\ fIn[3].xRaw = ONE \div 2
  /\ fOut[1].saccades = << 3 >>
  /\ fOut[1].saccadeFrequency.num = 1000

\* the timestamps of fIn never decrease, as in the answer of a query
\* ordered by ts
SortedInput == \A k \in 1..(Len(fIn) - 1) : fIn[k].ts <= fIn[k + 1].ts

\* the transition into sample i has a velocity below the fixation threshold
SlowInto(i) ==
  /\ i \in PositivePairs
  /\ Abs(FilteredOrRaw(fIn[i]) - FilteredOrRaw(fIn[i - 1]))
       < FIXATION_THRESHOLD * (fIn[i].ts - fIn[i - 1].ts)

\* the transitions of fIn that have a velocity, in order, as positions
Transitions == [ k \in 1..Cardinality(PositivePairs) |-> NthOf(PositivePairs, k) ]

\* the maximal runs a..b of consecutive slow transitions, as positions of
\* Transitions
SlowRuns ==
  { r \in (1..Len(Transitions)) \X (1..Len(Transitions)) :
      /\ r[1] <= r[2]
      /\ \A k \in r[1]..r[2] : SlowInto(Transitions[k])
      /\ r[1] > 1 => ~SlowInto(Transitions[r[1] - 1])
      /\ r[2] < Len(Transitions) => ~SlowInto(Transitions[r[2] + 1]) }

\* a run lasts from the earlier sample of its first transition to the later
\* sample of its last one
RunLasts(r) == fIn[Transitions[r[2]]].ts - fIn[Transitions[r[1]] - 1].ts

\* C23: for a series in timestamp order, calculateFixations reports one
\* fixation for each maximal run of consecutive transitions slower than the
\* fixation threshold that lasts at least minDuration, the run at the end of
\* the series included, and nothing else; the fixations reported do not
\* overlap and have duration = end - start.
C23_OneFixationPerSlowRun ==
  (fOut # << >> /\ fOut[1].op = "fixations" /\ SortedInput) =>
    LET fix == fOut[1].fixations
    IN /\ Len(fix)
            = Cardinality({ r \in SlowRuns : RunLasts(r) >= fOut[1].minDuration })
       /\ \A k \in 1..Len(fix) : fix[k].duration = fix[k].end - fix[k].start
       /\ \A k \in 1..(Len(fix) - 1) : fix[k].end <= fix[k + 1].start

(***************************************************************************)
(* The routes that read the stored samples of a session:                   *)
(* routes/analytics.ts with processing/smoothing.ts and                    *)
(* processing/analytics.ts, and routes/export.ts.                          *)
(***************************************************************************)
\* samples.map(sample => ({ts, xRaw, xFiltered: sample.xFiltered || undefined,
\*                         confidence: sample.confidence || undefined}))
ConvertSamples(rows) ==
  [ k \in 1..Len(rows) |->
      [ ts |-> rows[k].ts,
        xRaw |-> rows[k].xRaw,
        xFiltered |-> IF rows[k].xFiltered = 0 THEN << >> ELSE << rows[k].xFiltered >>,
        confidence |-> IF rows[k].confidence = << 0 >> THEN << >>
                       ELSE rows[k].confidence ] ]

\* smoothEyeTrackingData(samples, {windowSize, outlierThreshold, minConfidence}):
\* filterByConfidence, removeOutliers, applyMovingAverageFilter of smoothing.ts
smoothEyeTrackingData(samples, windowSize, outlierThreshold, minConfidence) ==
  IF Len(samples) = 0 THEN samples
  ELSE LET Keep(sample) == ConfOrOne(sample.confidence) >= minConfidence
           byConf == SelectSeq(samples, Keep)
           near(i) ==
             /\ Abs(FilteredOrRaw(byConf[i]) - FilteredOrRaw(byConf[i - 1]))
                  < outlierThreshold
             /\ Abs(FilteredOrRaw(byConf[i]) - FilteredOrRaw(byConf[i + 1]))
                  < outlierThreshold
           RECURSIVE Mid(_)
           Mid(i) == IF i > Len(byConf) - 1 THEN << >>
                     ELSE (IF near(i) THEN << byConf[i] >> ELSE << >>) \o Mid(i + 1)
           cleaned == IF Len(byConf) < 3 THEN byConf
                      ELSE << byConf[1] >> \o Mid(2) \o << byConf[Len(byConf)] >>
           raws == [ k \in 1..Len(cleaned) |-> cleaned[k].xRaw ]
       IN [ i \in 1..Len(cleaned) |->
              LET start == Max2(0, (i - 1) - (windowSize \div 2))
                  end   == Min2(Len(cleaned), (i - 1) + (windowSize \div 2) + 1)
                  window == Slice(raws, start, end)
              IN [ cleaned[i] EXCEPT
                     !.xFiltered = << SumSeq(window) \div Len(window) >> ] ]

\* the result of analyzeEyeTrackingData for samples.length === 0
ZeroAnalytics ==
  [ totalPoints |-> 0, durationMs |-> 0,
    avgVelocity |-> [ num |-> 0, den |-> 1 ],
    maxVelocity |-> [ num |-> 0, den |-> 1 ],
    saccadeFrequency |-> [ num |-> 0, den |-> 1 ],
    avgConfidence |-> [ num |-> 0, den |-> 1 ],
    velocities |-> << >>, saccades |-> << >> ]

\* export function analyzeEyeTrackingData(samples)
analyzeEyeTrackingData(samples) ==
  IF Len(samples) = 0 THEN ZeroAnalytics
  ELSE LET velocities == calculateVelocity(samples)
           n == Len(velocities)
           RECURSIVE Product(_)
           Product(k) == IF k > n THEN 1 ELSE velocities[k].den * Product(k + 1)
           RECURSIVE Sum(_)
           Sum(k) == IF k > n THEN 0
                     ELSE velocities[k].num * (Product(1) \div velocities[k].den)
                            + Sum(k + 1)
           top == CHOOSE k \in 1..n : \A j \in 1..n :
                    velocities[k].num * velocities[j].den
                      >= velocities[j].num * velocities[k].den
           saccades == detectSaccades(velocities, SACCADE_THRESHOLD)
           confs == [ k \in 1..Len(samples) |->
                        IF samples[k].confidence = << >> THEN 0
                        ELSE samples[k].confidence[1] ]
       IN [ totalPoints |-> Len(samples),
            durationMs |-> DurationMs(samples),
            avgVelocity |-> IF n > 0
                            THEN [ num |-> Sum(1), den |-> Product(1) * n ]
                            ELSE [ num |-> 0, den |-> 1 ],
            maxVelocity |-> IF n > 0
                            THEN [ num |-> velocities[top].num,
                                   den |-> velocities[top].den ]
                            ELSE [ num |-> 0, den |-> 1 ],
            saccadeFrequency |->
              calculateSaccadeFrequency(saccades, DurationMs(samples)),
            avgConfidence |-> [ num |-> SumSeq(confs), den |-> Len(samples) ],
            velocities |-> velocities, saccades |-> saccades ]

\* a read route may be called before or after the body fIn was posted
MayRead == IF fOut = << >> THEN TRUE ELSE fOut[1].op = "post"

\* GET /sessions/:id/analytics with the default window, outlier threshold and
\* minimal confidence
GetAnalytics(sessionId, smoothing) ==
  /\ MayRead
  /\ LET samples == SortByTs(SamplesOf(sessionId))
         converted == ConvertSamples(samples)
         processed == IF smoothing
                      THEN smoothEyeTrackingData(converted, 5, ONE \div 10,
                                                 ONE \div 2)
                      ELSE converted
     IN fOut' = << [ op |-> "analytics", sid |-> sessionId,
                     reply |-> IF sessionId \notin sessions \/ Len(samples) = 0
                               THEN "404" ELSE "200",
                     analytics |-> IF sessionId \notin sessions \/ Len(samples) = 0
                                   THEN << >>
                                   ELSE << analyzeEyeTrackingData(processed) >> ] >>
  /\ UNCHANGED << fIn, clientVars, serverVars, histVars, calibrationData, calOut, calibVars, zoomVars,
                  playbackVars >>

\* the text of a number in a template literal: `${value}`
NumberText(value) == << value >>

\* `${value || ''}`: the empty string for null, undefined and 0
TextOrEmpty(optional) ==
  IF optional = << >> \/ optional = << 0 >> THEN << >>
  ELSE NumberText(optional[1])

csvHeader == << "timestamp", "xRaw", "xFiltered", "confidence" >>

\* GET /sessions/:id/export.csv: the header and one row per sample found,
\* ordered by ts; a row is the sequence of its four fields
ExportCsv(sessionId) ==
  /\ MayRead
  /\ LET samples == SortByTs(SamplesOf(sessionId))
         csvRows == [ k \in 1..Len(samples) |->
                       << NumberText(samples[k].ts),
                          NumberText(samples[k].xRaw),
                          TextOrEmpty(<< samples[k].xFiltered >>),
                          TextOrEmpty(samples[k].confidence) >> ]
     IN fOut' = << [ op |-> "export", sid |-> sessionId,
                     reply |-> IF sessionId \notin sessions THEN "404" ELSE "200",
                     csv |-> IF sessionId \notin sessions THEN << >>
                             ELSE << csvHeader >> \o csvRows ] >>
  /\ UNCHANGED << fIn, clientVars, serverVars, histVars, calibrationData, calOut, calibVars, zoomVars,
                  playbackVars >>

NextReport ==
  \/ \E ts \in 1..MaxTs, x \in BodyXVals, c \in BodyConfVals :
       AddPoint([ ts |-> ts, x |-> x, confidence |-> c ])
  \/ \E sessionId \in 1..nextSession, insertOk \in BOOLEAN :
       PostBatch(sessionId, insertOk)
  \/ \E sessionId \in 1..nextSession, smoothing \in BOOLEAN :
       GetAnalytics(sessionId, smoothing)
  \/ \E sessionId \in 1..nextSession : ExportCsv(sessionId)

SpecReport == InitIngest /\ [][NextReport]_vars

\* C24: the analytics of a session that exists and holds no samples is the
\* all-zero summary with empty velocity and saccade lists, not a failure.
C24_EmptySessionZeroAnalytics ==
  ( /\ fOut # << >>
    /\ fOut[1].op = "analytics"
    /\ fOut[1].sid \in sessions
    /\ SamplesOf(fOut[1].sid) = << >> ) =>
      /\ fOut[1].reply = "200"
      /\ fOut[1].analytics = << ZeroAnalytics >>

\* C25: the export of a session is the header row followed by exactly one row
\* per stored sample in ascending order of ts, and a field of a row is empty
\* exactly when the value is absent: a value of 0 is written as 0.
C25_CsvRowPerSampleEmptyIffAbsent ==
  ( /\ fOut # << >>
    /\ fOut[1].op = "export"
    /\ fOut[1].reply = "200" ) =>
      \A samples \in { SortByTs(SamplesOf(fOut[1].sid)) } :
        /\ Len(fOut[1].csv) = 1 + Len(samples)
        /\ fOut[1].csv[1] = << "timestamp", "xRaw", "xFiltered", "confidence" >>
        /\ \A k \in 1..Len(samples) :
             /\ fOut[1].csv[k + 1][1] = << samples[k].ts >>
             /\ fOut[1].csv[k + 1][2] = << samples[k].xRaw >>
             /\ fOut[1].csv[k + 1][3] = << samples[k].xFiltered >>
             /\ fOut[1].csv[k + 1][4] = samples[k].confidence
             /\ k > 1 => samples[k - 1].ts <= samples[k].ts

(***************************************************************************)
(* The placeholder points of the recorder.                                 *)
(***************************************************************************)
\* the points of the live buffer that the placeholder interval synthesized
IsPlaceholder(k) == liveData[k].ts \in hPlaceholders

\* every placeholder lies at position 0
PlaceholdersNeutral ==
  \A k \in 1..Len(liveData) : IsPlaceholder(k) => liveData[k].x = 0

\* no placeholder follows another one without a detected point between them
OnePlaceholderPerStall ==
  \A k \in 2..Len(liveData) : IsPlaceholder(k) => ~IsPlaceholder(k - 1)

\* C26: a placeholder is synthesized once per stall of the detector, at the
\* neutral position 0: the placeholders of the live buffer lie at 0 and no two
\* of them are adjacent.
C26_OnePlaceholderPerStallAtZero ==
  PlaceholdersNeutral /\ OnePlaceholderPerStall

(***************************************************************************)
(* Calibration: zero-width ranges, the sampling window.                    *)
(***************************************************************************)
\* C27: under a calibration with left = center or center = right the mapping
\* of every raw position is a number of [-1, 1], never NaN.
C27_ZeroWidthRangeWellDefined ==
  ( /\ Collected
    /\ calOut # << >>
    /\ \/ calibrationData.left = calibrationData.center
       \/ calibrationData.center = calibrationData.right ) =>
      /\ ~calOut[1].out.nan
      /\ calOut[1].out.den > 0
      /\ calOut[1].out.num >= 0 - calOut[1].out.den
      /\ calOut[1].out.num <= calOut[1].out.den

\* the raw positions of the eye that onResults puts into debugInfo
EyeRawVals == { GridStep, 3 * GridStep }

MaxCalibrations == 3

COUNTDOWN_START == 3

sampleDuration == 2000

sampleInterval == 100

\* onResults with a face: setDebugInfo({..., averageEye: {x: eyeX, y: eyeY}})
DetectEye(eyeX) ==
  /\ averageEye # << eyeX >>
  /\ averageEye' = << eyeX >>
  /\ UNCHANGED << isCalibrating, calibrationStep, calibrationCountdown,
                  calibrationSamples, calRun >>
  /\ UNCHANGED << clientVars, serverVars, histVars, fIn, fOut, calibrationData,
                  calOut, playbackVars, zoomVars >>

\* const calibrate = (position) => ...: the button is clicked in a render whose
\* debugInfo and calibrationSamples the interval callbacks keep
calibrate(position) ==
  /\ calRun.pc \in { "idle", "done" }
  /\ calRun.attempt < MaxCalibrations
  /\ isCalibrating' = TRUE
  /\ calibrationStep' = << position >>
  /\ calibrationCountdown' = COUNTDOWN_START
  /\ calibrationSamples' = [ calibrationSamples EXCEPT ![position] = << >> ]
  /\ calRun' = [ pc |-> "countdown", position |-> position,
                 averageEye |-> averageEye,
                 samples |-> calibrationSamples[position],
                 samplesCollected |-> 0, attempt |-> calRun.attempt + 1 ]
  /\ UNCHANGED averageEye
  /\ UNCHANGED << clientVars, serverVars, histVars, fIn, fOut, calibrationData,
                  calOut, playbackVars, zoomVars >>

\* the callback of countdownInterval, every 1000 ms: at prev <= 1 the interval
\* is cleared and startCalibrationSampling(position) creates samplingInterval
CountdownInterval ==
  /\ calRun.pc = "countdown"
  /\ IF calibrationCountdown <= 1
       THEN /\ calibrationCountdown' = 0
            /\ calRun' = [ calRun EXCEPT !.pc = "sampling" ]
       ELSE /\ calibrationCountdown' = calibrationCountdown - 1
            /\ UNCHANGED calRun
  /\ UNCHANGED << isCalibrating, calibrationStep, calibrationSamples, averageEye >>
  /\ UNCHANGED << clientVars, serverVars, histVars, fIn, fOut, calibrationData,
                  calOut, playbackVars, zoomVars >>

\* the callback of samplingInterval, every 100 ms, with finishCalibration when
\* samplesCollected reaches sampleDuration / sampleInterval; debugInfo and
\* calibrationSamples[position] are those of the render of the click
SamplingInterval ==
  /\ calRun.pc = "sampling"
  /\ LET position == calRun.position
         currentEyePos == calRun.averageEye
         samplesCollected == calRun.samplesCollected
                               + (IF currentEyePos # << >> THEN 1 ELSE 0)
         samples == calRun.samples
         avgX == SumSeq(samples) \div Len(samples)
     IN /\ calibrationSamples' =
             IF currentEyePos # << >>
               THEN [ calibrationSamples EXCEPT
                        ![position] = Append(@, currentEyePos[1]) ]
               ELSE calibrationSamples
        /\ IF samplesCollected >= sampleDuration \div sampleInterval
             THEN /\ calibrationData' =
                       IF Len(samples) > 0
                         THEN [ calibrationData EXCEPT ![position] = << avgX >> ]
                         ELSE calibrationData
                  /\ calibrationStep' = << >>
                  /\ isCalibrating' = FALSE
                  /\ calRun' = [ calRun EXCEPT !.pc = "done",
                                   !.samplesCollected = samplesCollected ]
             ELSE /\ calRun' = [ calRun EXCEPT !.samplesCollected = samplesCollected ]
                  /\ UNCHANGED << calibrationData, calibrationStep, isCalibrating >>
  /\ UNCHANGED << calibrationCountdown, averageEye >>
  /\ UNCHANGED << clientVars, serverVars, histVars, fIn, fOut, calOut, playbackVars,
                  zoomVars >>

NextCalibration ==
  \/ \E eyeX \in EyeRawVals : DetectEye(eyeX)
  \/ \E position \in { "left", "center", "right" } : calibrate(position)
  \/ CountdownInterval
  \/ SamplingInterval

SpecCalibration == Init /\ [][NextCalibration]_vars

\* C28: when the sampling window of a calibration has ended, the reference of
\* its position is the mean of the raw positions collected during that window.
C28_StoresMeanOfWindow ==
  calRun.pc = "done" =>
    \A window \in { calibrationSamples[calRun.position] } :
      /\ Len(window) > 0
      /\ calibrationData[calRun.position]
           = << SumSeq(window) \div Len(window) >>

\* the interval callbacks run whenever their interval exists
SpecCalibrationFair ==
  /\ Init
  /\ [][NextCalibration]_vars
  /\ WF_vars(CountdownInterval)
  /\ WF_vars(SamplingInterval)

\* C29: every calibration that was started ends: the calibrating state is
\* left after the countdown and the sampling window, also when the detector
\* delivered no sample.
C29_CalibrationTerminates ==
  isCalibrating ~> ~isCalibrating

(***************************************************************************)
(* The confidence gate of signal/processor.ts next to the confidence       *)
(* filter of routes/points.ts, on the same points.                         *)
(***************************************************************************)
\* confidences of [0, 1]: absent, 0, below, at and above the minimum
GateConfVals ==
  { << >>, << 0 >>, << ONE \div 20 >>, << MIN_CONFIDENCE >>,
    << DETECTED_CONFIDENCE >> }

\* processAligned(fIn) and SignalProcessor.filterByConfidence(fIn)
GateBatch ==
  /\ fOut = << >>
  /\ fIn # << >>
  /\ fOut' = << [ op |-> "gate",
                  aligned |-> processAligned(fIn),
                  kept |-> FilterByConfidence(fIn, MIN_CONFIDENCE) ] >>
  /\ UNCHANGED << fIn, clientVars, serverVars, histVars, calibrationData, calOut,
                  calibVars, zoomVars, playbackVars >>

MaxGateBatch == 4

\* one more point of the argument of processAligned and filterByConfidence
AddGatePoint(point) ==
  /\ fOut = << >>
  /\ Len(fIn) < MaxGateBatch
  /\ fIn' = Append(fIn, point)
  /\ UNCHANGED << fOut, clientVars, serverVars, histVars, calibrationData, calOut,
                  calibVars, zoomVars, playbackVars >>

\* the points of a body arrive with increasing timestamps
NextGate ==
  \/ \E x \in BodyXVals, c \in GateConfVals :
       AddGatePoint([ ts |-> Len(fIn) + 1, x |-> x, confidence |-> c ])
  \/ GateBatch

SpecGate == Init /\ [][NextGate]_vars

\* C30: the gate marks a point isOutlier exactly when its confidence is present
\* and below 0.1, confidence 0 included, and the confidence filter of the
\* server drops exactly the points that the gate marks.
C30_GateAndFilterAgree ==
  (fOut # << >> /\ fOut[1].op = "gate") =>
    \A k \in 1..Len(fIn) :
      /\ fOut[1].aligned[k].ts = fIn[k].ts
      /\ fOut[1].aligned[k].isOutlier
           <=> ( /\ fIn[k].confidence # << >>
                 /\ fIn[k].confidence[1] < MIN_CONFIDENCE )
      /\ fOut[1].aligned[k].isOutlier
           <=> ~(\E j \in 1..Len(fOut[1].kept) : fOut[1].kept[j].ts = fIn[k].ts)

\* a gated point that is not the first of the batch carries the filtered
\* value output for the point before it
FrozenAtPrevious ==
  (fOut # << >> /\ fOut[1].op = "gate") =>
    \A k \in 2..Len(fOut[1].aligned) :
      fOut[1].aligned[k].isOutlier =>
        fOut[1].aligned[k].filtered = fOut[1].aligned[k - 1].filtered

\* a gated point that is the first of the batch carries its own raw value
FirstFrozenAtRaw ==
  (fOut # << >> /\ fOut[1].op = "gate" /\ fOut[1].aligned[1].isOutlier) =>
    fOut[1].aligned[1].filtered = fOut[1].aligned[1].raw

\* C31: the filtered value of a gated point is the filtered value output for
\* the previous point, also when that point was gated, and its own raw value
\* when it is the first point of the batch.
C31_GatedSampleFrozen ==
  FrozenAtPrevious /\ FirstFrozenAtRaw

(***************************************************************************)
(* The filters alone: removeOutliers of routes/points.ts and movingAverage *)
(* of signal/processor.ts on arbitrary sequences.                          *)
(***************************************************************************)
MaxSmooth == 5

\* the positions 0, 0.48, 0.5, 0.52 and 1.0
SmoothXVals ==
  { 0, (48 * ONE) \div 100, ONE \div 2, (52 * ONE) \div 100, ONE }

\* the window sizes k
WindowSizes == { 1, 3, MOVING_AVG }

\* the thresholds: the default one and one above every difference
Thresholds == { OUTLIER_THRESHOLD, 2 * ONE }

\* one more point of the argument, stamped after the ones before it
AddRawPoint(x) ==
  /\ fOut = << >>
  /\ Len(fIn) < MaxSmooth
  /\ fIn' = Append(fIn, [ ts |-> Len(fIn) + 1, x |-> x, confidence |-> << >> ])
  /\ UNCHANGED << fOut, clientVars, serverVars, histVars, calibrationData, calOut,
                  calibVars, zoomVars, playbackVars >>

\* SignalProcessor.removeOutliers(fIn, threshold)
RemoveOutliersOf(threshold) ==
  /\ fOut = << >>
  /\ fOut' = << [ op |-> "removeOutliers", threshold |-> threshold,
                  points |-> RemoveOutliers(fIn, threshold) ] >>
  /\ UNCHANGED << fIn, clientVars, serverVars, histVars, calibrationData, calOut,
                  calibVars, zoomVars, playbackVars >>

\* movingAverage(fIn.map(p => p.x), k)
MovingAverageOf(k) ==
  /\ fOut = << >>
  /\ fOut' = << [ op |-> "movingAverage", k |-> k,
                  xs |-> movingAverage([ i \in 1..Len(fIn) |-> fIn[i].x ], k) ] >>
  /\ UNCHANGED << fIn, clientVars, serverVars, histVars, calibrationData, calOut,
                  calibVars, zoomVars, playbackVars >>

NextSmooth ==
  \/ \E x \in SmoothXVals : AddRawPoint(x)
  \/ \E threshold \in Thresholds : RemoveOutliersOf(threshold)
  \/ \E k \in WindowSizes : MovingAverageOf(k)

SpecSmooth == Init /\ [][NextSmooth]_vars

\* the interior point i of fIn is within the threshold of the point before it,
\* of the point after it
NearPrev(i, threshold) == Abs(fIn[i].x - fIn[i - 1].x) < threshold

NearNext(i, threshold) == Abs(fIn[i].x - fIn[i + 1].x) < threshold

\* the points of fIn with the given indices, in their order
RECURSIVE PointsAt(_, _)
PointsAt(indices, i) ==
  IF i > Len(fIn) THEN << >>
  ELSE (IF i \in indices THEN << fIn[i] >> ELSE << >>) \o PointsAt(indices, i + 1)

\* C32: removeOutliers drops an interior point exactly when it fails both
\* comparisons; an interior point within the threshold of at least one
\* neighbour is kept, and the first and the last point are always kept.
C32_DroppedIffFailsBoth ==
  (fOut # << >> /\ fOut[1].op = "removeOutliers") =>
    fOut[1].points =
      PointsAt({ i \in 1..Len(fIn) :
                   \/ i = 1
                   \/ i = Len(fIn)
                   \/ NearPrev(i, fOut[1].threshold)
                   \/ NearNext(i, fOut[1].threshold) }, 1)

\* the sum of the positions of fIn at the 0-based indices lo to hi exclusive
RECURSIVE RangeSum(_, _)
RangeSum(lo, hi) == IF lo >= hi THEN 0 ELSE fIn[lo + 1].x + RangeSum(lo + 1, hi)

\* the sequence 0, 0.5, 1.0, 0.52, 0.48 and the averages of width 3 to two places
ExampleXs == << 0, ONE \div 2, ONE, (52 * ONE) \div 100, (48 * ONE) \div 100 >>

ExampleAverages ==
  << ONE \div 4, ONE \div 2, (67 * ONE) \div 100, (67 * ONE) \div 100, ONE \div 2 >>

\* C33: the moving average of width k at the 0-based index i of n values is
\* the mean of the values at max(0, i - floor(k/2)) to
\* min(n, i + floor(k/2) + 1) exclusive; a constant sequence is returned
\* unchanged, and 0, 0.5, 1.0, 0.52, 0.48 with k = 3 gives 0.25, 0.5, 0.67,
\* 0.67, 0.5 to two places.
C33_CenteredShrinkingWindow ==
  (fOut # << >> /\ fOut[1].op = "movingAverage") =>
    \A n \in { Len(fIn) }, half \in { fOut[1].k \div 2 } :
      /\ Len(fOut[1].xs) = n
      /\ \A i \in 0..(n - 1) :
           \A lo \in { Max2(0, i - half) }, hi \in { Min2(n, i + half + 1) } :
             fOut[1].xs[i + 1] = RangeSum(lo, hi) \div (hi - lo)
      /\ (\A i \in 1..n : fIn[i].x = fIn[1].x) =>
           \A i \in 1..n : fOut[1].xs[i] = fIn[i].x
      /\ ([ i \in 1..n |-> fIn[i].x ] = ExampleXs /\ fOut[1].k = 3) =>
           \A i \in 1..n :
             Abs(fOut[1].xs[i] - ExampleAverages[i]) <= ONE \div 200

\* C33: the example sequence was averaged with k = 3, and its first average
\* is that of a window of two values.
C33_Witness ==
  /\ fOut # << >>
  /\ fOut[1].op = "movingAverage"
  /\ fOut[1].k = 3
  /\ [ i \in 1..Len(fIn) |-> fIn[i].x ] = ExampleXs
  /\ fOut[1].xs[1] = ONE \div 4

\* the positions of fIn never decrease
Monotone == \A i \in 2..Len(fIn) : fIn[i - 1].x <= fIn[i].x

\* C34: removeOutliers of a monotonically increasing sequence, with a
\* threshold above every difference of neighbouring positions, returns the
\* sequence unchanged.
C34_LargeThresholdChangesNothing ==
  ( /\ fOut # << >>
    /\ fOut[1].op = "removeOutliers"
    /\ Monotone
    /\ \A i \in 2..Len(fIn) : fIn[i].x - fIn[i - 1].x < fOut[1].threshold ) =>
      fOut[1].points = fIn

\* C34: a monotone sequence of five points with a step and a repeated
\* position went through removeOutliers with the large threshold.
C34_Witness ==
  /\ fOut # << >>
  /\ fOut[1].op = "removeOutliers"
  /\ fOut[1].threshold = 2 * ONE
  /\ Monotone
  /\ Len(fIn) = MaxSmooth
  /\ fIn[1].x < fIn[2].x
  /\ fIn[2].x = fIn[3].x
  /\ fIn[Len(fIn)].x - fIn[1].x > OUTLIER_THRESHOLD

\* C35: the points of a posted body are sorted by timestamp before the filter
\* pipeline runs and before they are stored: the rows stored for the body are
\* in ascending order of ts and are those of the pipeline run on the sorted
\* body.
C35_SortedBeforePipelineAndStorage ==
  Posted =>
    /\ \A k \in 2..Len(fOut[1].rows) :
         fOut[1].rows[k - 1].ts <= fOut[1].rows[k].ts
    /\ fOut[1].rows = SamplesData(fOut[1].sid, ProcessPoints(SortByTs(fIn)))

(***************************************************************************)
(* SessionPlayback.tsx: the zoom selection on the chart.                   *)
(***************************************************************************)
\* e.activeLabel of a chart event: absent, or the ts of a point of the chart
ActiveLabels == { << >> } \cup { << pbPoints[k].ts >> : k \in 1..Len(pbPoints) }

\* handleZoomStart(e)
handleZoomStart(activeLabel) ==
  /\ ControlsShown
  /\ IF activeLabel # << >>
       THEN /\ isZooming' = TRUE
            /\ zoomStart' = activeLabel
       ELSE UNCHANGED << isZooming, zoomStart >>
  /\ UNCHANGED << zoomDomain, zoomEnd, playbackVars >>
  /\ UNCHANGED << clientVars, serverVars, histVars, fIn, fOut, calibrationData,
                  calOut, calibVars >>

\* handleZoomMove(e)
handleZoomMove(activeLabel) ==
  /\ ControlsShown
  /\ zoomEnd' = IF isZooming /\ activeLabel # << >> THEN activeLabel ELSE zoomEnd
  /\ UNCHANGED << zoomDomain, isZooming, zoomStart, playbackVars >>
  /\ UNCHANGED << clientVars, serverVars, histVars, fIn, fOut, calibrationData,
                  calOut, calibVars >>

\* handleZoomEnd()
handleZoomEnd ==
  /\ ControlsShown
  /\ zoomDomain' = IF isZooming /\ zoomStart # << >> /\ zoomEnd # << >>
                     THEN << [ left |-> Min2(zoomStart[1], zoomEnd[1]),
                               right |-> Max2(zoomStart[1], zoomEnd[1]) ] >>
                     ELSE zoomDomain
  /\ isZooming' = FALSE
  /\ zoomStart' = << >>
  /\ zoomEnd' = << >>
  /\ UNCHANGED playbackVars
  /\ UNCHANGED << clientVars, serverVars, histVars, fIn, fOut, calibrationData,
                  calOut, calibVars >>

\* a faulty reset, to test C36: it also rewinds the cursor
resetZoomRewinding ==
  /\ ControlsShown
  /\ zoomDomain' = << >>
  /\ currentTime' = TimeScale * startTime
  /\ UNCHANGED << isZooming, zoomStart, zoomEnd, pbPoints, isPlaying,
                  playbackSpeed, duration >>
  /\ UNCHANGED << clientVars, serverVars, histVars, fIn, fOut, calibrationData,
                  calOut, calibVars >>

\* resetZoom()
resetZoom ==
  /\ ControlsShown
  /\ zoomDomain' = << >>
  /\ UNCHANGED << isZooming, zoomStart, zoomEnd, playbackVars >>
  /\ UNCHANGED << clientVars, serverVars, histVars, fIn, fOut, calibrationData,
                  calOut, calibVars >>

\* the scrubber positions and the speeds used next to the zoom
ZoomScrubberValues == { 0, 50, 100 }

ZoomSpeedOptions == { 4, 8 }

NextZoom ==
  \/ \E series \in PlaySeries : LoadSessionData(series)
  \/ togglePlayback
  \/ stopPlayback
  \/ resetPlayback
  \/ \E value \in ZoomScrubberValues : handleScrubberChange(value)
  \/ \E speed \in ZoomSpeedOptions : handleSpeedChange(speed)
  \/ PlaybackInterval
  \/ \E activeLabel \in ActiveLabels : handleZoomStart(activeLabel)
  \/ \E activeLabel \in ActiveLabels : handleZoomMove(activeLabel)
  \/ handleZoomEnd
  \/ resetZoom

SpecZoom == Init /\ [][NextZoom]_vars

\* C36: a step that changes the zoom state (selection in progress, its two
\* ends, the zoom domain) leaves the cursor, the playing state and the speed
\* as they are, and a step that changes one of these three leaves the zoom
\* domain as it is.
C36_ZoomOrthogonalToPlayback ==
  [][ /\ zoomVars' # zoomVars =>
           /\ currentTime' = currentTime
           /\ isPlaying' = isPlaying
           /\ playbackSpeed' = playbackSpeed
      /\ ( \/ currentTime' # currentTime
           \/ isPlaying' # isPlaying
           \/ playbackSpeed' # playbackSpeed ) => zoomDomain' = zoomDomain ]_vars

\* C36: a zoom domain of positive width is in effect while the series plays,
\* with the cursor past the start and the speed changed.
C36_Witness ==
  /\ zoomDomain # << >>
  /\ zoomDomain[1].left < zoomDomain[1].right
  /\ isPlaying
  /\ currentTime > TimeScale * startTime
  /\ playbackSpeed = 8

(***************************************************************************)
(* Deletion next to appends, the stop handler, the start handler.          *)
(***************************************************************************)
\* C37: no step removes a session that holds samples, and no step removes a
\* stored sample, whichever way a DELETE and a POST of points for the same
\* session interleave.
C37_NonEmptySessionNeverDeleted ==
  [][ /\ \A sid \in sessions : SamplesOf(sid) # << >> => sid \in sessions'
      /\ Len(store') >= Len(store)
      /\ SubSeq(store', 1, Len(store)) = store ]_vars

\* when stopRecording sends the DELETE of its session, the session holds no
\* stored sample
CleanupOnlyIfNothingStored ==
  [][ (cleanup.state # "sent" /\ cleanup'.state = "sent") =>
        SamplesOf(cleanup'.sid) = << >> ]_vars

\* C38: when stopRecording sends the DELETE of its session, no append of
\* points to that session has returned success, the final append of the same
\* stop included, and the session holds no stored sample.
C38_NoCleanupAfterSuccess ==
  [][ (cleanup.state # "sent" /\ cleanup'.state = "sent") =>
        /\ hAcked' = {}
        /\ SamplesOf(cleanup'.sid) = << >> ]_vars

\* no session holds two rows of the same sample
StoredAtMostOnce ==
  \A j, k \in 1..Len(store) :
    (store[j].sessionId = store[k].sessionId /\ store[j].ts = store[k].ts)
      => j = k

\* C39: no sample is in two appends of points that both returned 201: the
\* timestamps of the batches that the server accepted are pairwise different,
\* and no session holds a sample twice.
C39_DeliveredAtMostOnce ==
  /\ \A j, k \in 1..Len(hDelivered) : hDelivered[j] = hDelivered[k] => j = k
  /\ StoredAtMostOnce

\* C40: while the recording is active a session id has been obtained from
\* createSession, and no sample is queued for upload without a session id.
C40_RecordingImpliesSession ==
  /\ isRecording => currentSessionId # 0
  /\ uploadQueue # << >> => currentSessionId # 0
====
